---------------------------- MODULE Spec2Model ----------------------------
(***************************************************************************)
(* Draw-App ML backend (apps/ml-backend).                                  *)
(*                                                                         *)
(* The full service (src/main.py) owns four module-level service objects   *)
(* and exposes one POST handler per AI feature; the simplified service     *)
(* (src/main-simple.py) exposes /enhance-drawing.  Every handler is a      *)
(* function of its request and of the service objects' fields.             *)
(*                                                                         *)
(* Conventions of the model                                                *)
(*  - Floating-point scores are kept in hundredths (0.78 is 78).  Every    *)
(*    score the code computes is n/100.0, n/20.0 or n/5 for an integer n,  *)
(*    and IEEE division is correctly rounded, so a comparison with a       *)
(*    two-digit literal agrees with the comparison of the hundredths.      *)
(*  - A Python string built by an f-string is the sequence of its pieces.  *)
(*    Text that is searched for substrings is a sequence of one-character  *)
(*    strings.                                                             *)
(*  - What OpenCV / Pillow compute from a raster (Hough line count,        *)
(*    contour list, ...) is a field of the image drawn from a bounded set. *)
(*  - A call either returns a value or raises: Ok(v) / Raise(e).           *)
(***************************************************************************)
EXTENDS Integers, Sequences, FiniteSets, TLC

VARIABLES
    shape_service,      \* main.py:47   fields of ShapeRecognitionService
    diagram_service,    \* main.py:48   fields of DiagramDetectionService
    ocr_service,        \* main.py:49   fields of OCRService
    ai_assistant,       \* main.py:50   fields of AIAssistantService
    ml_manager,         \* ml_services.py:18-22   fields of an MLServiceManager
    request,            \* the call handled last (sequential specification)
    response,           \* what that call returned
    pc,                 \* per client: position of its request (concurrent specification)
    req,                \* per client: the request in flight
    resp                \* per client: the response produced

vars == <<shape_service, diagram_service, ocr_service, ai_assistant, ml_manager,
          request, response, pc, req, resp>>

services == <<shape_service, diagram_service, ocr_service, ai_assistant>>

-----------------------------------------------------------------------------
(* Bounds *)

MaxLines == 101         \* Hough line counts 0..MaxLines
MaxNodes == 21          \* node counts 0..MaxNodes

MaxWords == 3           \* fragments per description
MaxContours == 2        \* contours per image
MaxVertices == 11       \* vertex counts 0..MaxVertices
MaxSide == 7            \* bounding-box widths 1..MaxSide
MaxShapes == 5          \* shapes per auto-arrange request
MaxLoadTime == 2        \* model load times 1..MaxLoadTime (seconds)
MaxElements == 2        \* elements per generate-description request
NumClients == 2         \* requests in flight at once

LineCounts == 0..MaxLines
NodeCounts == 0..MaxNodes

\* score triples handed directly to _classify_diagram, in hundredths:
\* every threshold of the five rules with both neighbours
ScoreValues == {10, 29, 30, 31, 40, 41, 50, 51, 60, 61, 70, 71, 80, 81, 90}

ImageModes == {"RGB", "L"}

-----------------------------------------------------------------------------
(* Values *)

None == "None"

Min(a, b) == IF a <= b THEN a ELSE b

\* outcome of a call
Ok(v)    == [raised |-> FALSE, exc |-> <<>>, value |-> v]
Raise(e) == [raised |-> TRUE,  exc |-> e,    value |-> <<>>]

\* exception objects: the class, the constructor arguments, and for an
\* HTTPException its status code (0 otherwise)
Exc(type, args)               == [type |-> type, status_code |-> 0, args |-> args]
HTTPException(status, detail) == [type |-> "HTTPException", status_code |-> status, args |-> detail]

\* str(e): a KeyError prints the repr of its key, an HTTPException prints
\* "<status_code>: <detail>", every other exception its message
str(e) ==
    CASE e.type = "KeyError"      -> <<"'">> \o e.args \o <<"'">>
      [] e.type = "HTTPException" -> <<ToString(e.status_code), ": ">> \o e.args
      [] OTHER                    -> e.args

\* what the framework sends for a handler's outcome: the returned content
\* with status 200, a raised HTTPException with its own status and detail,
\* any other exception that leaves the handler as an unhandled error
Respond(outcome) ==
    IF ~outcome.raised
    THEN [status |-> 200, content |-> outcome.value, detail |-> <<>>, escaped |-> FALSE]
    ELSE IF outcome.exc.type = "HTTPException"
         THEN [status |-> outcome.exc.status_code, content |-> <<>>,
               detail |-> outcome.exc.args, escaped |-> FALSE]
         ELSE [status |-> 500, content |-> <<>>,
               detail |-> <<"Internal Server Error">>, escaped |-> TRUE]

\* variant: except (ValueError, OSError) -- a KeyError leaves the handler
TryExceptSome500(body, prefix) ==
    IF body.raised /\ body.exc.type # "KeyError"
    THEN Raise(HTTPException(500, <<prefix>> \o str(body.exc)))
    ELSE body

\* try: body  except Exception as e: raise HTTPException(500, f"{prefix}{str(e)}")
TryExcept500(body, prefix) ==
    IF body.raised
    THEN Raise(HTTPException(500, <<prefix>> \o str(body.exc)))
    ELSE body

-----------------------------------------------------------------------------
(* Uploaded images *)

\* An upload as the handlers see it: whether Pillow can decode it, its mode,
\* what OpenCV finds in the decoded raster (Hough line count, node count,
\* contours with their polygon approximation), what the OCR reader would do
\* with it, and the drawing operations applied to the raster since decoding.
BaseImage ==
    [decodable |-> TRUE, mode |-> "RGB", lines |-> 0, nodes |-> 0,
     contours |-> <<>>, readtext |-> Ok(<<>>), ops |-> <<>>]

\* image_data = await image.read(); Image.open(...); np.array(pil_image)
DecodeImage(image) ==
    IF image.decodable
    THEN Ok(image)
    ELSE Raise(Exc("UnidentifiedImageError", <<"cannot identify image file">>))

\* number of array dimensions of np.array(pil_image)
Ndim(image) == IF image.mode = "L" THEN 2 ELSE 3

\* number of channels of np.array(pil_image)
Channels(image) ==
    CASE image.mode = "L"    -> 1
      [] image.mode = "LA"   -> 2
      [] image.mode = "RGBA" -> 4
      [] OTHER               -> 3

\* cv2.cvtColor(image, cv2.COLOR_RGB2GRAY) needs an array of three or four
\* channels
cvtColorRGB2GRAY(image) ==
    IF Ndim(image) = 3 /\ Channels(image) \in {3, 4}
    THEN Ok(image)
    ELSE Raise(Exc("cv2.error", <<"Invalid number of channels in input image">>))

\* cv2.cvtColor(image, cv2.COLOR_BGR2RGB): the first and third channel
\* change places; it needs three or four channels as well
cvtColorBGR2RGB(image) ==
    IF Ndim(image) = 3 /\ Channels(image) \in {3, 4}
    THEN Ok([image EXCEPT !.ops = Append(@, [op |-> "COLOR_BGR2RGB", args |-> <<>>])])
    ELSE Raise(Exc("cv2.error", <<"Invalid number of channels in input image">>))

-----------------------------------------------------------------------------
(* DiagramDetectionService *)

DiagramTypes == <<"flowchart", "uml", "mindmap", "network", "organizational">>

DiagramDetectionService_init == [diagram_types |-> DiagramTypes]

\* min(len(lines) / 100.0, 1.0), 0.0 when HoughLines returns None
_analyze_structure(gray) ==
    IF gray.lines # 0 THEN Min(gray.lines, 100) ELSE 0

\* min(node_count / 20.0, 1.0)
_analyze_connections(gray) == Min(5 * gray.nodes, 100)

_analyze_text_density(gray) == 30

\* variant: the mindmap rule accepts text <= 0.3
_classify_diagram_inclusive(structure, connections, text) ==
    IF connections > 70 /\ structure > 50 THEN "flowchart"
    ELSE IF text > 60 /\ structure > 40 THEN "uml"
    ELSE IF connections > 80 /\ text <= 30 THEN "mindmap"
    ELSE IF structure > 80 THEN "network"
    ELSE "organizational"

\* variant: the network rule is tried before the flowchart rule
_classify_diagram_reordered(structure, connections, text) ==
    IF structure > 80 THEN "network"
    ELSE IF connections > 70 /\ structure > 50 THEN "flowchart"
    ELSE IF text > 60 /\ structure > 40 THEN "uml"
    ELSE IF connections > 80 /\ text < 30 THEN "mindmap"
    ELSE "organizational"

\* variant: the thresholds are met by equal scores (>= instead of >)
_classify_diagram_nonstrict(structure, connections, text) ==
    IF connections >= 70 /\ structure >= 50 THEN "flowchart"
    ELSE IF text >= 60 /\ structure >= 40 THEN "uml"
    ELSE IF connections >= 80 /\ text < 30 THEN "mindmap"
    ELSE IF structure >= 80 THEN "network"
    ELSE "organizational"

_classify_diagram(structure, connections, text) ==
    IF connections > 70 /\ structure > 50 THEN "flowchart"
    ELSE IF text > 60 /\ structure > 40 THEN "uml"
    ELSE IF connections > 80 /\ text < 30 THEN "mindmap"
    ELSE IF structure > 80 THEN "network"
    ELSE "organizational"

detect_diagram_type(image) ==
    LET gray == cvtColorRGB2GRAY(image) IN
    IF gray.raised THEN gray
    ELSE LET structure_score  == _analyze_structure(gray.value)
             connection_score == _analyze_connections(gray.value)
             text_density     == _analyze_text_density(gray.value)
         IN Ok([diagram_type     |-> _classify_diagram(structure_score, connection_score, text_density),
                confidence       |-> 78,
                structure_score  |-> structure_score,
                connection_score |-> connection_score,
                text_density     |-> text_density])

-----------------------------------------------------------------------------
(* Text *)

\* the characters of the string literals the model searches or searches for
CharsOf ==
    "process" :> <<"p", "r", "o", "c", "e", "s", "s">> @@
    "workflow" :> <<"w", "o", "r", "k", "f", "l", "o", "w">> @@
    "steps" :> <<"s", "t", "e", "p", "s">> @@
    "procedure" :> <<"p", "r", "o", "c", "e", "d", "u", "r", "e">> @@
    "algorithm" :> <<"a", "l", "g", "o", "r", "i", "t", "h", "m">> @@
    "class" :> <<"c", "l", "a", "s", "s">> @@
    "object" :> <<"o", "b", "j", "e", "c", "t">> @@
    "system" :> <<"s", "y", "s", "t", "e", "m">> @@
    "architecture" :> <<"a", "r", "c", "h", "i", "t", "e", "c", "t", "u", "r", "e">> @@
    "design" :> <<"d", "e", "s", "i", "g", "n">> @@
    "ideas" :> <<"i", "d", "e", "a", "s">> @@
    "concepts" :> <<"c", "o", "n", "c", "e", "p", "t", "s">> @@
    "brainstorming" :> <<"b", "r", "a", "i", "n", "s", "t", "o", "r", "m", "i", "n", "g">> @@
    "planning" :> <<"p", "l", "a", "n", "n", "i", "n", "g">> @@
    "organization" :> <<"o", "r", "g", "a", "n", "i", "z", "a", "t", "i", "o", "n">> @@
    "connections" :> <<"c", "o", "n", "n", "e", "c", "t", "i", "o", "n", "s">> @@
    "relationships" :> <<"r", "e", "l", "a", "t", "i", "o", "n", "s", "h", "i", "p", "s">> @@
    "graph" :> <<"g", "r", "a", "p", "h">> @@
    "nodes" :> <<"n", "o", "d", "e", "s">> @@
    "links" :> <<"l", "i", "n", "k", "s">> @@
    "hierarchy" :> <<"h", "i", "e", "r", "a", "r", "c", "h", "y">> @@
    "structure" :> <<"s", "t", "r", "u", "c", "t", "u", "r", "e">> @@
    "team" :> <<"t", "e", "a", "m">> @@
    "management" :> <<"m", "a", "n", "a", "g", "e", "m", "e", "n", "t">> @@
    "roles" :> <<"r", "o", "l", "e", "s">> @@
    "flowchart" :> <<"f", "l", "o", "w", "c", "h", "a", "r", "t">> @@
    "uml" :> <<"u", "m", "l">> @@
    "mindmap" :> <<"m", "i", "n", "d", "m", "a", "p">> @@
    "network" :> <<"n", "e", "t", "w", "o", "r", "k">> @@
    "organizational" :> <<"o", "r", "g", "a", "n", "i", "z", "a", "t", "i", "o", "n", "a", "l">> @@
    "Create a" :> <<"C", "r", "e", "a", "t", "e", " ", "a">> @@
    "Create a process workflow" :> <<"C", "r", "e", "a", "t", "e", " ", "a", " ", "p", "r", "o", "c", "e", "s", "s", " ", "w", "o", "r", "k", "f", "l", "o", "w">> @@
    "PROCESS" :> <<"P", "R", "O", "C", "E", "S", "S">> @@
    "diagram" :> <<"d", "i", "a", "g", "r", "a", "m">> @@
    "for user registration" :> <<"f", "o", "r", " ", "u", "s", "e", "r", " ", "r", "e", "g", "i", "s", "t", "r", "a", "t", "i", "o", "n">> @@
    "business" :> <<"b", "u", "s", "i", "n", "e", "s", "s">> @@
    "technology" :> <<"t", "e", "c", "h", "n", "o", "l", "o", "g", "y">> @@
    "education" :> <<"e", "d", "u", "c", "a", "t", "i", "o", "n">> @@
    "health" :> <<"h", "e", "a", "l", "t", "h">> @@
    "Business" :> <<"B", "u", "s", "i", "n", "e", "s", "s">>

Chars(s) == CharsOf[s]

UpperCase == <<"A", "B", "C", "D", "E", "F", "G", "H", "I", "J", "K", "L", "M",
               "N", "O", "P", "Q", "R", "S", "T", "U", "V", "W", "X", "Y", "Z">>
LowerCase == <<"a", "b", "c", "d", "e", "f", "g", "h", "i", "j", "k", "l", "m",
               "n", "o", "p", "q", "r", "s", "t", "u", "v", "w", "x", "y", "z">>

\* str.lower() on one character
LowerChar(c) ==
    IF \E i \in 1..26 : UpperCase[i] = c
    THEN LowerCase[CHOOSE i \in 1..26 : UpperCase[i] = c]
    ELSE c

\* str.lower()
lower(text) == [i \in 1..Len(text) |-> LowerChar(text[i])]

\* variant: the keyword must occur as a whole word
ContainsWord(keyword, text) ==
    \E i \in 1..(Len(text) - Len(keyword) + 1) :
        /\ \A j \in 1..Len(keyword) : text[i + j - 1] = keyword[j]
        /\ (i = 1 \/ text[i - 1] = " ")
        /\ (i + Len(keyword) > Len(text) \/ text[i + Len(keyword)] = " ")

\* keyword in text  (substring test)
Contains(keyword, text) ==
    \E i \in 1..(Len(text) - Len(keyword) + 1) :
        \A j \in 1..Len(keyword) : text[i + j - 1] = keyword[j]

\* " ".join(words) on character sequences
RECURSIVE JoinWords(_)
JoinWords(words) ==
    IF Len(words) = 0 THEN <<>>
    ELSE IF Len(words) = 1 THEN Chars(words[1])
    ELSE Chars(words[1]) \o <<" ">> \o JoinWords(Tail(words))

-----------------------------------------------------------------------------
(* Python dictionaries and lists *)

\* d[key]
GetItem(d, key) ==
    IF key \in DOMAIN d THEN Ok(d[key]) ELSE Raise(Exc("KeyError", <<key>>))

\* d.get(key, default)
Get(d, key, default) == IF key \in DOMAIN d THEN d[key] ELSE default

\* sep.join(items), as the sequence of its pieces
RECURSIVE Join(_, _)
Join(sep, items) ==
    IF Len(items) = 0 THEN <<>>
    ELSE IF Len(items) = 1 THEN <<items[1]>>
    ELSE <<items[1], sep>> \o Join(sep, Tail(items))

RECURSIVE SumSeq(_)
SumSeq(s) == IF Len(s) = 0 THEN 0 ELSE Head(s) + SumSeq(Tail(s))

-----------------------------------------------------------------------------
(* ShapeRecognitionService *)

ShapeRecognitionService_init ==
    [shape_names |-> <<"circle", "rectangle", "triangle", "line", "arrow", "diamond">>]

\* variant: a seven-vertex approximation is labelled too
_classify_shape_heptagon(approx) ==
    LET vertices == approx.vertices IN
    IF vertices = 3 THEN "triangle"
    ELSE IF vertices = 4 THEN
        IF 4 * approx.h <= 5 * approx.w /\ 5 * approx.w <= 6 * approx.h
        THEN "diamond"
        ELSE "rectangle"
    ELSE IF vertices = 5 THEN "pentagon"
    ELSE IF vertices = 6 THEN "hexagon"
    ELSE IF vertices = 7 THEN "heptagon"
    ELSE IF vertices = 8 THEN "octagon"
    ELSE IF vertices > 8 THEN "circle"
    ELSE None

\* variant: 0.8 < aspect_ratio < 1.2
_classify_shape_strict(approx) ==
    LET vertices == approx.vertices IN
    IF vertices = 3 THEN "triangle"
    ELSE IF vertices = 4 THEN
        IF 4 * approx.h < 5 * approx.w /\ 5 * approx.w < 6 * approx.h
        THEN "diamond"
        ELSE "rectangle"
    ELSE IF vertices = 5 THEN "pentagon"
    ELSE IF vertices = 6 THEN "hexagon"
    ELSE IF vertices = 8 THEN "octagon"
    ELSE IF vertices > 8 THEN "circle"
    ELSE None

\* approx: the polygon approximation of a contour, by its vertex count and
\* the width and height of its bounding box.  float(w) / h is compared with
\* 0.8 and 1.2 as 4h <= 5w and 5w <= 6h.
_classify_shape(approx) ==
    LET vertices == approx.vertices IN
    IF vertices = 3 THEN "triangle"
    ELSE IF vertices = 4 THEN
        IF 4 * approx.h <= 5 * approx.w /\ 5 * approx.w <= 6 * approx.h
        THEN "diamond"
        ELSE "rectangle"
    ELSE IF vertices = 5 THEN "pentagon"
    ELSE IF vertices = 6 THEN "hexagon"
    ELSE IF vertices = 8 THEN "octagon"
    ELSE IF vertices > 8 THEN "circle"
    ELSE None

\* one detected-shape dictionary
DetectedShape(contour) ==
    [type       |-> _classify_shape(contour.approx),
     confidence |-> 85,
     bbox       |-> <<contour.x, contour.y, contour.w, contour.h>>,
     vertices   |-> contour.approx.vertices]

\* variant: detected_shapes.insert(0, ...), the shapes in reverse contour order
RECURSIVE DetectLoopReversed(_)
DetectLoopReversed(contours) ==
    IF Len(contours) = 0 THEN <<>>
    ELSE IF _classify_shape(Head(contours).approx) # None
         THEN DetectLoopReversed(Tail(contours)) \o <<DetectedShape(Head(contours))>>
         ELSE DetectLoopReversed(Tail(contours))

RECURSIVE DetectLoop(_)
DetectLoop(contours) ==
    IF Len(contours) = 0 THEN <<>>
    ELSE IF _classify_shape(Head(contours).approx) # None
         THEN <<DetectedShape(Head(contours))>> \o DetectLoop(Tail(contours))
         ELSE DetectLoop(Tail(contours))

detect_shapes(image) ==
    LET gray == cvtColorRGB2GRAY(image) IN
    IF gray.raised THEN gray
    ELSE LET detected_shapes == DetectLoop(gray.value.contours)
         IN Ok([shapes_detected |-> Len(detected_shapes),
                shapes          |-> detected_shapes,
                total_contours  |-> Len(gray.value.contours)])

\* the primitive clean_shapes draws for one shape, <<>> when it draws none
Overlay(shape) ==
    LET x == shape.bbox[1]
        y == shape.bbox[2]
        w == shape.bbox[3]
        h == shape.bbox[4]
    IN  IF shape.type = "rectangle"
        THEN <<[op |-> "rectangle", args |-> <<x, y, x + w, y + h>>]>>
        ELSE IF shape.type = "circle"
        THEN <<[op |-> "circle", args |-> <<x + (w \div 2), y + (h \div 2), Min(w, h) \div 2>>]>>
        ELSE IF shape.type = "triangle"
        THEN <<[op |-> "polylines", args |-> <<x, y + h, x + (w \div 2), y, x + w, y + h>>]>>
        ELSE <<>>

RECURSIVE Overlays(_)
Overlays(detected_shapes) ==
    IF Len(detected_shapes) = 0 THEN <<>>
    ELSE Overlay(Head(detected_shapes)) \o Overlays(Tail(detected_shapes))

\* draws on a copy: the result is a new raster value
clean_shapes(image, detected_shapes) ==
    [image EXCEPT !.ops = @ \o Overlays(detected_shapes)]

\* variant: cleaned_image = image (no copy), the overlays land on the argument
clean_shapes_call_inplace(image, detected_shapes) ==
    [image           |-> clean_shapes(image, detected_shapes),
     detected_shapes |-> detected_shapes,
     cleaned_image   |-> clean_shapes(image, detected_shapes)]

\* a call of clean_shapes: the two argument objects as they are after the
\* call, and the raster returned.  cleaned_image = image.copy() is the only
\* object drawn on; the list is only read.
clean_shapes_call(image, detected_shapes) ==
    [image           |-> image,
     detected_shapes |-> detected_shapes,
     cleaned_image   |-> clean_shapes(image, detected_shapes)]

-----------------------------------------------------------------------------
(* DiagramDetectionService.clean_diagram *)

_enhance_flowchart(image) ==
    [image EXCEPT !.ops = Append(@, [op |-> "MORPH_CLOSE", args |-> <<2, 2>>])]

_enhance_uml(image) ==
    [image EXCEPT !.ops = Append(@, [op |-> "MORPH_OPEN", args |-> <<3, 3>>])]

_enhance_mindmap(image) ==
    [image EXCEPT !.ops = Append(@, [op |-> "MORPH_CLOSE", args |-> <<2, 2>>])]

\* variant: a final else branch that applies the opening
clean_diagram_default_open(image, diagram_type) ==
    IF diagram_type = "flowchart" THEN _enhance_flowchart(image)
    ELSE IF diagram_type = "uml" THEN _enhance_uml(image)
    ELSE IF diagram_type = "mindmap" THEN _enhance_mindmap(image)
    ELSE _enhance_uml(image)

\* variant: the flowchart and uml branches changed places
clean_diagram_swapped(image, diagram_type) ==
    IF diagram_type = "flowchart" THEN _enhance_uml(image)
    ELSE IF diagram_type = "uml" THEN _enhance_flowchart(image)
    ELSE IF diagram_type = "mindmap" THEN _enhance_mindmap(image)
    ELSE image

clean_diagram(image, diagram_type) ==
    IF diagram_type = "flowchart" THEN _enhance_flowchart(image)
    ELSE IF diagram_type = "uml" THEN _enhance_uml(image)
    ELSE IF diagram_type = "mindmap" THEN _enhance_mindmap(image)
    ELSE image

\* a call of clean_diagram: the argument raster as it is after the call, and
\* the raster returned.  The method works on image.copy() and
\* cv2.morphologyEx returns a new array.
clean_diagram_call(image, diagram_type) ==
    [image |-> image, cleaned |-> clean_diagram(image, diagram_type)]

-----------------------------------------------------------------------------
(* OCRService *)

\* __init__ leaves the reader unset: the easyocr import is commented out
OCRService_init == [reader |-> None]

\* variant: no test of self.reader; the call on None raises AttributeError
\* inside the try block
extract_text_unguarded(self, image) ==
    [raised |-> FALSE, reader_calls |-> 1,
     value |-> [text |-> <<>>, confidence |-> 0,
                error |-> <<"'NoneType' object has no attribute 'readtext'">>]]

\* the result dictionary of the except branch
OcrFailure(e) == [text |-> <<>>, confidence |-> 0, error |-> str(e)]

\* the loop over the detections (bbox, text, confidence) of the reader
OcrWords(results) ==
    [i \in 1..Len(results) |->
        [text |-> results[i][2], confidence |-> results[i][3], bbox |-> results[i][1]]]

\* variant: no try block, an exception of the conversion or of the reader
\* leaves extract_text
extract_text_propagating(self, image) ==
    IF self.reader = None
    THEN [raised |-> FALSE, reader_calls |-> 0,
          value |-> [text |-> <<>>, confidence |-> 0,
                     error |-> <<"OCR service not available">>]]
    ELSE LET image_rgb == IF Ndim(image) = 3 THEN cvtColorBGR2RGB(image) ELSE Ok(image) IN
         IF image_rgb.raised
         THEN [raised |-> TRUE, reader_calls |-> 0, value |-> OcrFailure(image_rgb.exc)]
         ELSE LET results == image_rgb.value.readtext IN
              IF results.raised
              THEN [raised |-> TRUE, reader_calls |-> 1, value |-> OcrFailure(results.exc)]
              ELSE LET extracted_text   == OcrWords(results.value)
                       total_confidence == SumSeq([i \in 1..Len(extracted_text) |->
                                                       extracted_text[i].confidence])
                       avg_confidence   == IF Len(results.value) > 0
                                           THEN total_confidence \div Len(results.value)
                                           ELSE 0
                   IN [raised |-> FALSE, reader_calls |-> 1,
                       value |-> [text       |-> Join(" ", [i \in 1..Len(extracted_text) |->
                                                                 extracted_text[i].text]),
                                  confidence |-> avg_confidence,
                                  words      |-> extracted_text,
                                  word_count |-> Len(extracted_text)]]

\* variant: the confidence is the total, not divided by the number of detections
extract_text_total(self, image) ==
    IF self.reader = None
    THEN [raised |-> FALSE, reader_calls |-> 0,
          value |-> [text |-> <<>>, confidence |-> 0,
                     error |-> <<"OCR service not available">>]]
    ELSE LET image_rgb == IF Ndim(image) = 3 THEN cvtColorBGR2RGB(image) ELSE Ok(image) IN
         IF image_rgb.raised
         THEN [raised |-> FALSE, reader_calls |-> 0, value |-> OcrFailure(image_rgb.exc)]
         ELSE LET results == image_rgb.value.readtext IN
              IF results.raised
              THEN [raised |-> FALSE, reader_calls |-> 1, value |-> OcrFailure(results.exc)]
              ELSE LET extracted_text   == OcrWords(results.value)
                       total_confidence == SumSeq([i \in 1..Len(extracted_text) |->
                                                       extracted_text[i].confidence])
                   IN [raised |-> FALSE, reader_calls |-> 1,
                       value |-> [text       |-> Join(" ", [i \in 1..Len(extracted_text) |->
                                                                 extracted_text[i].text]),
                                  confidence |-> total_confidence,
                                  words      |-> extracted_text,
                                  word_count |-> Len(extracted_text)]]

\* The result dictionary together with the number of calls made to
\* self.reader.readtext and whether an exception left the method.
\* image.readtext is what the reader does with the image: it raises, or
\* returns detections (bbox, text, confidence).  Confidences are hundredths;
\* total_confidence / len(results) is their quotient, a whole number of
\* hundredths for the detections the model feeds in.
extract_text(self, image) ==
    IF self.reader = None
    THEN [raised |-> FALSE, reader_calls |-> 0,
          value |-> [text |-> <<>>, confidence |-> 0,
                     error |-> <<"OCR service not available">>]]
    ELSE LET image_rgb == IF Ndim(image) = 3 THEN cvtColorBGR2RGB(image) ELSE Ok(image) IN
         IF image_rgb.raised
         THEN [raised |-> FALSE, reader_calls |-> 0, value |-> OcrFailure(image_rgb.exc)]
         ELSE LET results == image_rgb.value.readtext IN
              IF results.raised
              THEN [raised |-> FALSE, reader_calls |-> 1, value |-> OcrFailure(results.exc)]
              ELSE LET extracted_text   == OcrWords(results.value)
                       total_confidence == SumSeq([i \in 1..Len(extracted_text) |->
                                                       extracted_text[i].confidence])
                       avg_confidence   == IF Len(results.value) > 0
                                           THEN total_confidence \div Len(results.value)
                                           ELSE 0
                   IN [raised |-> FALSE, reader_calls |-> 1,
                       value |-> [text       |-> Join(" ", [i \in 1..Len(extracted_text) |->
                                                                 extracted_text[i].text]),
                                  confidence |-> avg_confidence,
                                  words      |-> extracted_text,
                                  word_count |-> Len(extracted_text)]]

\* adaptive threshold and denoising of a grayscale copy, converted back to
\* RGB when the input had three dimensions
enhance_handwriting(image) ==
    [image EXCEPT !.ops = @ \o <<[op |-> "adaptiveThreshold", args |-> <<11, 2>>],
                                 [op |-> "fastNlMeansDenoising", args |-> <<>>]>>]

-----------------------------------------------------------------------------
(* AIAssistantService *)

\* __init__: the gpt2 pipeline, or None when its construction raised
TextGenerators == {None, "pipeline"}

\* the suggestions dictionary, in insertion order
suggestions ==
    <<[type |-> "flowchart",      keywords |-> <<"process", "workflow", "steps", "procedure", "algorithm">>],
      [type |-> "uml",            keywords |-> <<"class", "object", "system", "architecture", "design">>],
      [type |-> "mindmap",        keywords |-> <<"ideas", "concepts", "brainstorming", "planning", "organization">>],
      [type |-> "network",        keywords |-> <<"connections", "relationships", "graph", "nodes", "links">>],
      [type |-> "organizational", keywords |-> <<"hierarchy", "structure", "team", "management", "roles">>]>>

SuggestionTypes == [i \in 1..Len(suggestions) |-> suggestions[i].type]

\* variant: sum(description_lower.count(keyword) for keyword in keywords)
KeywordOccurrences(keywords, description_lower) ==
    SumSeq([i \in 1..Len(keywords) |->
        Cardinality({p \in 1..Len(description_lower) :
            /\ p + Len(Chars(keywords[i])) - 1 <= Len(description_lower)
            /\ \A j \in 1..Len(Chars(keywords[i])) :
                   description_lower[p + j - 1] = Chars(keywords[i])[j]})])

\* sum(1 for keyword in keywords if keyword in description_lower)
KeywordScore(keywords, description_lower) ==
    Cardinality({i \in 1..Len(keywords) : Contains(Chars(keywords[i]), description_lower)})

\* the scores dictionary
Scores(description) ==
    LET description_lower == lower(description) IN
    [t \in {suggestions[i].type : i \in 1..Len(suggestions)} |->
        KeywordScore(suggestions[CHOOSE i \in 1..Len(suggestions) : suggestions[i].type = t].keywords,
                     description_lower)]

\* variant: the candidate is replaced by an equal one (the last maximum wins)
RECURSIVE max_by_key_last(_, _, _)
max_by_key_last(keys, scores, best) ==
    IF Len(keys) = 0 THEN best
    ELSE max_by_key_last(Tail(keys), scores,
                         IF scores[Head(keys)] >= scores[best] THEN Head(keys) ELSE best)

\* max(scores, key=scores.get): the builtin walks the keys in insertion
\* order and replaces its candidate only by a strictly greater one
RECURSIVE max_by_key(_, _, _)
max_by_key(keys, scores, best) ==
    IF Len(keys) = 0 THEN best
    ELSE max_by_key(Tail(keys), scores,
                    IF scores[Head(keys)] > scores[best] THEN Head(keys) ELSE best)

\* max(len(keywords) for keywords in suggestions.values())
MaxKeywords ==
    CHOOSE m \in {Len(suggestions[i].keywords) : i \in 1..Len(suggestions)} :
        \A i \in 1..Len(suggestions) : Len(suggestions[i].keywords) <= m

\* scores[best_type] / max(len(keywords) ...), in hundredths
SuggestConfidence(scores, best_type) == (scores[best_type] * 100) \div MaxKeywords

\* variant: [k for k, v in scores.items() if v > 0]
AlternativesAll(scores, best_type) ==
    SelectSeq(SuggestionTypes, LAMBDA k : scores[k] > 0)

\* [k for k, v in scores.items() if v > 0 and k != best_type]
Alternatives(scores, best_type) ==
    SelectSeq(SuggestionTypes, LAMBDA k : scores[k] > 0 /\ k # best_type)

suggest_diagram(description) ==
    LET scores    == Scores(description)
        best_type == max_by_key(Tail(SuggestionTypes), scores, Head(SuggestionTypes))
    IN [suggested_diagram |-> best_type,
        confidence        |-> SuggestConfidence(scores, best_type),
        reasoning         |-> <<"Based on keywords: ">> \o
                              Join(", ", SelectSeq(SuggestionTypes, LAMBDA k : scores[k] > 0)),
        alternatives      |-> Alternatives(scores, best_type)]

\* the icon_suggestions dictionary, in insertion order; icon i of a list is
\* named by the list and its position
icon_categories == <<"business", "technology", "design", "education", "health">>

Icons(name) == [i \in 1..5 |-> <<name, i>>]

\* variant: a later matching category replaces an earlier one
RECURSIVE FirstCategoryLast(_, _)
FirstCategoryLast(categories, context_lower) ==
    IF Len(categories) = 0 THEN "default"
    ELSE LET later == FirstCategoryLast(Tail(categories), context_lower) IN
         IF later # "default" THEN later
         ELSE IF Contains(Chars(Head(categories)), context_lower) THEN Head(categories)
         ELSE "default"

RECURSIVE FirstCategory(_, _)
FirstCategory(categories, context_lower) ==
    IF Len(categories) = 0 THEN "default"
    ELSE IF Contains(Chars(Head(categories)), context_lower) THEN Head(categories)
    ELSE FirstCategory(Tail(categories), context_lower)

suggest_icons(context) == Icons(FirstCategory(icon_categories, lower(context)))

\* variant: int(np.sqrt(n)), the square root rounded down
CeilSqrtFloor(n) == CHOOSE c \in 0..n : c * c <= n /\ (c + 1) * (c + 1) > n

\* int(np.ceil(np.sqrt(n)))
CeilSqrt(n) == CHOOSE c \in 0..n : c * c >= n /\ (c = 0 \/ (c - 1) * (c - 1) < n)

\* variant: int(n / cols), the quotient rounded down
CeilDivFloor(n, cols) == n \div cols

\* int(np.ceil(n / cols))
CeilDiv(n, cols) == (n + cols - 1) \div cols

\* variant: the shape is put at the top-left corner of its cell
ArrangeOneCorner(shape, i, cols, cell_width, cell_height) ==
    LET row   == i \div cols
        col   == i % cols
        new_x == col * cell_width
        new_y == row * cell_height
        bbox  == GetItem(shape, "bbox")
    IN  IF bbox.raised THEN bbox
        ELSE IF Len(bbox.value) < 4
        THEN Raise(Exc("IndexError", <<"list index out of range">>))
        ELSE Ok([shape EXCEPT !.bbox = <<new_x, new_y, bbox.value[3], bbox.value[4]>>])

\* variant: the shape is resized to fill its cell
ArrangeOneResized(shape, i, cols, cell_width, cell_height) ==
    LET row   == i \div cols
        col   == i % cols
        new_x == col * cell_width + cell_width \div 2
        new_y == row * cell_height + cell_height \div 2
        bbox  == GetItem(shape, "bbox")
    IN  IF bbox.raised THEN bbox
        ELSE IF Len(bbox.value) < 4
        THEN Raise(Exc("IndexError", <<"list index out of range">>))
        ELSE Ok([shape EXCEPT !.bbox = <<new_x, new_y, cell_width, cell_height>>])

\* variant: the new position is an offset from the old one
ArrangeOneRelative(shape, i, cols, cell_width, cell_height) ==
    LET row   == i \div cols
        col   == i % cols
        bbox  == GetItem(shape, "bbox")
    IN  IF bbox.raised THEN bbox
        ELSE IF Len(bbox.value) < 4
        THEN Raise(Exc("IndexError", <<"list index out of range">>))
        ELSE LET new_x == bbox.value[1] + col * cell_width + cell_width \div 2
                 new_y == bbox.value[2] + row * cell_height + cell_height \div 2
             IN Ok([shape EXCEPT !.bbox = <<new_x, new_y, bbox.value[3], bbox.value[4]>>])

\* one iteration of the loop: shape.copy() with a new bbox; shape['bbox']
\* raises KeyError without the key, [2] or [3] IndexError on a short list
ArrangeOne(shape, i, cols, cell_width, cell_height) ==
    LET row   == i \div cols
        col   == i % cols
        new_x == col * cell_width + cell_width \div 2
        new_y == row * cell_height + cell_height \div 2
        bbox  == GetItem(shape, "bbox")
    IN  IF bbox.raised THEN bbox
        ELSE IF Len(bbox.value) < 4
        THEN Raise(Exc("IndexError", <<"list index out of range">>))
        ELSE Ok([shape EXCEPT !.bbox = <<new_x, new_y, bbox.value[3], bbox.value[4]>>])

RECURSIVE ArrangeLoop(_, _, _, _, _, _)
ArrangeLoop(shapes, i, cols, cell_width, cell_height, arranged_shapes) ==
    IF i >= Len(shapes) THEN Ok(arranged_shapes)
    ELSE LET one == ArrangeOne(shapes[i + 1], i, cols, cell_width, cell_height) IN
         IF one.raised THEN one
         ELSE ArrangeLoop(shapes, i + 1, cols, cell_width, cell_height,
                          Append(arranged_shapes, one.value))

\* a / b and a // b raise ZeroDivisionError for b = 0
ZeroDivisionError(message) == Raise(Exc("ZeroDivisionError", <<message>>))

auto_arrange_drawings(shapes, canvas_size) ==
    IF Len(shapes) = 0 THEN Ok(<<>>)
    ELSE LET canvas_width  == canvas_size[1]
             canvas_height == canvas_size[2]
             cols          == CeilSqrt(Len(shapes))
         IN IF cols = 0 THEN ZeroDivisionError("division by zero")
            ELSE LET rows == CeilDiv(Len(shapes), cols) IN
                 IF rows = 0 THEN ZeroDivisionError("integer division or modulo by zero")
                 ELSE LET cell_width  == canvas_width \div cols
                          cell_height == canvas_height \div rows
                      IN ArrangeLoop(shapes, 0, cols, cell_width, cell_height, <<>>)

\* a call of auto_arrange_drawings: the argument list as it is after the
\* call, and the outcome.  Each output shape is shape.copy() and its 'bbox'
\* key is bound to a new list, so no object of the input is written.
auto_arrange_call(shapes, canvas_size) ==
    [shapes |-> shapes, arranged_shapes |-> auto_arrange_drawings(shapes, canvas_size)]

\* f"A {diagram_type} diagram containing: {', '.join(elements)}"
FallbackDescription(diagram_type, elements) ==
    <<"A ", diagram_type, " diagram containing: ">> \o Join(", ", elements.items)

\* variant: the generator is called outside any try
generate_diagram_description_unguarded(self, diagram_type, elements, generated) ==
    IF ~elements.strings /\ Len(elements.items) > 0
    THEN Raise(Exc("TypeError", <<"sequence item 0: expected str instance">>))
    ELSE IF self.text_generator = None
    THEN Ok(FallbackDescription(diagram_type, elements))
    ELSE generated

\* elements: the parsed list with whether its items are strings (items that
\* are JSON numbers are kept by their literals; join raises TypeError on them); generated: what the pipeline does with the prompt
generate_diagram_description(self, diagram_type, elements, generated) ==
    IF ~elements.strings /\ Len(elements.items) > 0
    THEN Raise(Exc("TypeError", <<"sequence item 0: expected str instance">>))
    ELSE IF self.text_generator = None
    THEN Ok(FallbackDescription(diagram_type, elements))
    ELSE IF generated.raised
    THEN Ok(FallbackDescription(diagram_type, elements))
    ELSE Ok(generated.value)

-----------------------------------------------------------------------------
(* Handlers of the full service (main.py) *)

\* base64 of the PNG encoding of a raster
PngBase64(image) == [format |-> "PNG", mode |-> image.mode, ops |-> image.ops]

\* json.loads of a form field: the field is valid JSON carrying data, or not
json_loads(field) ==
    IF field.valid THEN Ok(field.data)
    ELSE Raise(Exc("JSONDecodeError", <<"Expecting value: line 1 column 1 (char 0)">>))

\* variant: if clean_shapes:  (without the test of the shape list)
recognize_shapes_body_always_clean(shape, image, clean_shapes_flag) ==
    LET img_array == DecodeImage(image) IN
    IF img_array.raised THEN img_array
    ELSE LET shape_analysis == detect_shapes(img_array.value) IN
         IF shape_analysis.raised THEN shape_analysis
         ELSE LET result == [shapes_detected |-> shape_analysis.value.shapes_detected,
                             shapes          |-> shape_analysis.value.shapes,
                             total_contours  |-> shape_analysis.value.total_contours,
                             cleaned_shapes  |-> FALSE]
              IN IF clean_shapes_flag
                 THEN Ok([result EXCEPT !.cleaned_shapes = TRUE] @@
                         [cleaned_image |-> PngBase64(clean_shapes(img_array.value,
                                                                   shape_analysis.value.shapes))])
                 ELSE Ok(result)

recognize_shapes_body(shape, image, clean_shapes_flag) ==
    LET img_array == DecodeImage(image) IN
    IF img_array.raised THEN img_array
    ELSE LET shape_analysis == detect_shapes(img_array.value) IN
         IF shape_analysis.raised THEN shape_analysis
         ELSE LET result == [shapes_detected |-> shape_analysis.value.shapes_detected,
                             shapes          |-> shape_analysis.value.shapes,
                             total_contours  |-> shape_analysis.value.total_contours,
                             cleaned_shapes  |-> FALSE]
              IN IF clean_shapes_flag /\ Len(shape_analysis.value.shapes) > 0
                 THEN Ok([result EXCEPT !.cleaned_shapes = TRUE] @@
                         [cleaned_image |-> PngBase64(clean_shapes(img_array.value,
                                                                   shape_analysis.value.shapes))])
                 ELSE Ok(result)

recognize_shapes(shape, image, clean_shapes_flag) ==
    TryExcept500(recognize_shapes_body(shape, image, clean_shapes_flag),
                 "Shape recognition failed: ")

detect_diagram_body(diagram, image, clean_diagram_flag) ==
    LET img_array == DecodeImage(image) IN
    IF img_array.raised THEN img_array
    ELSE LET diagram_analysis == detect_diagram_type(img_array.value) IN
         IF diagram_analysis.raised THEN diagram_analysis
         ELSE LET result == [diagram_type    |-> diagram_analysis.value.diagram_type,
                             confidence      |-> diagram_analysis.value.confidence,
                             analysis        |-> [structure_score  |-> diagram_analysis.value.structure_score,
                                                  connection_score |-> diagram_analysis.value.connection_score,
                                                  text_density     |-> diagram_analysis.value.text_density],
                             cleaned_diagram |-> FALSE]
              IN IF clean_diagram_flag
                 THEN Ok([result EXCEPT !.cleaned_diagram = TRUE] @@
                         [cleaned_image |-> PngBase64(clean_diagram(img_array.value,
                                                                    diagram_analysis.value.diagram_type))])
                 ELSE Ok(result)

detect_diagram(diagram, image, clean_diagram_flag) ==
    TryExcept500(detect_diagram_body(diagram, image, clean_diagram_flag),
                 "Diagram detection failed: ")

\* the result dictionary literal reads ocr_result["text"], ["confidence"] and
\* ["word_count"] in this order; the first missing key raises KeyError
recognize_handwriting_body(ocr, image, enhance_image) ==
    LET decoded == DecodeImage(image) IN
    IF decoded.raised THEN decoded
    ELSE LET img_array  == IF enhance_image THEN enhance_handwriting(decoded.value)
                                            ELSE decoded.value
             ocr_result == extract_text(ocr, img_array).value
             text       == GetItem(ocr_result, "text")
             confidence == GetItem(ocr_result, "confidence")
             word_count == GetItem(ocr_result, "word_count")
         IN IF text.raised THEN text
            ELSE IF confidence.raised THEN confidence
            ELSE IF word_count.raised THEN word_count
            ELSE LET result == [extracted_text |-> text.value,
                                confidence     |-> confidence.value,
                                word_count     |-> word_count.value,
                                words          |-> Get(ocr_result, "words", <<>>),
                                enhanced_image |-> enhance_image]
                 IN IF enhance_image
                    THEN Ok(result @@ [enhanced_image_b64 |-> PngBase64(img_array)])
                    ELSE Ok(result)

recognize_handwriting(ocr, image, enhance_image) ==
    TryExcept500(recognize_handwriting_body(ocr, image, enhance_image),
                 "Handwriting recognition failed: ")

suggest_diagram_handler(assistant, description) ==
    TryExcept500(Ok(suggest_diagram(description)), "Diagram suggestion failed: ")

suggest_icons_handler(assistant, context) ==
    TryExcept500(Ok([suggested_icons |-> suggest_icons(context), context |-> context]),
                 "Icon suggestion failed: ")

auto_arrange_body(assistant, shapes, canvas_width, canvas_height) ==
    LET shapes_data == json_loads(shapes) IN
    IF shapes_data.raised THEN shapes_data
    ELSE LET canvas_size     == <<canvas_width, canvas_height>>
             arranged_shapes == auto_arrange_drawings(shapes_data.value, canvas_size)
         IN IF arranged_shapes.raised THEN arranged_shapes
            ELSE Ok([arranged_shapes |-> arranged_shapes.value,
                     canvas_size     |-> canvas_size,
                     shapes_count    |-> Len(arranged_shapes.value)])

auto_arrange_handler(assistant, shapes, canvas_width, canvas_height) ==
    TryExcept500(auto_arrange_body(assistant, shapes, canvas_width, canvas_height),
                 "Auto-arrangement failed: ")

generate_description_body(assistant, diagram_type, elements, generated) ==
    LET elements_data == json_loads(elements) IN
    IF elements_data.raised THEN elements_data
    ELSE LET description == generate_diagram_description(assistant, diagram_type,
                                                         elements_data.value, generated)
         IN IF description.raised THEN description
            ELSE Ok([diagram_type          |-> diagram_type,
                     elements              |-> elements_data.value.items,
                     generated_description |-> description.value])

generate_description_handler(assistant, diagram_type, elements, generated) ==
    TryExcept500(generate_description_body(assistant, diagram_type, elements, generated),
                 "Description generation failed: ")

\* f"Create a {diagram_type} diagram"
CreateDiagramText(diagram_type) ==
    Chars("Create a") \o <<" ">> \o Chars(diagram_type) \o <<" ">> \o Chars("diagram")

\* variant: if include_ocr and ocr_service.reader:  (no text without a reader)
complete_ai_analysis_body_skip_ocr(svc, image, include_ocr, include_shape_recognition, include_diagram_detection) ==
    LET img_array == DecodeImage(image) IN
    IF img_array.raised THEN img_array
    ELSE LET shape_analysis   == detect_shapes(img_array.value)
             diagram_analysis == detect_diagram_type(img_array.value)
             ocr_result       == extract_text(svc.ocr, img_array.value).value
         IN IF include_shape_recognition /\ shape_analysis.raised THEN shape_analysis
            ELSE IF include_diagram_detection /\ diagram_analysis.raised THEN diagram_analysis
            ELSE LET shapes  == IF include_shape_recognition
                                THEN [shapes |-> shape_analysis.value] ELSE <<>>
                     diagram == IF include_diagram_detection
                                THEN [diagram |-> diagram_analysis.value] ELSE <<>>
                     text    == IF include_ocr /\ svc.ocr.reader # None
                                THEN [text |-> ocr_result] ELSE <<>>
                     suggest == IF "diagram" \in DOMAIN diagram
                                THEN [suggestions |-> suggest_diagram(
                                          CreateDiagramText(diagram.diagram.diagram_type))]
                                ELSE <<>>
                 IN Ok([image_info |-> [mode |-> image.mode],
                        analysis   |-> shapes @@ diagram @@ text @@ suggest])

complete_ai_analysis_body(svc, image, include_ocr, include_shape_recognition, include_diagram_detection) ==
    LET img_array == DecodeImage(image) IN
    IF img_array.raised THEN img_array
    ELSE LET shape_analysis   == detect_shapes(img_array.value)
             diagram_analysis == detect_diagram_type(img_array.value)
             ocr_result       == extract_text(svc.ocr, img_array.value).value
         IN IF include_shape_recognition /\ shape_analysis.raised THEN shape_analysis
            ELSE IF include_diagram_detection /\ diagram_analysis.raised THEN diagram_analysis
            ELSE LET shapes  == IF include_shape_recognition
                                THEN [shapes |-> shape_analysis.value] ELSE <<>>
                     diagram == IF include_diagram_detection
                                THEN [diagram |-> diagram_analysis.value] ELSE <<>>
                     text    == IF include_ocr
                                THEN [text |-> ocr_result] ELSE <<>>
                     \* result["analysis"].get("diagram") is a non-empty dictionary
                     suggest == IF "diagram" \in DOMAIN diagram
                                THEN [suggestions |-> suggest_diagram(
                                          CreateDiagramText(diagram.diagram.diagram_type))]
                                ELSE <<>>
                 IN Ok([image_info |-> [mode |-> image.mode],
                        analysis   |-> shapes @@ diagram @@ text @@ suggest])

complete_ai_analysis(svc, image, include_ocr, include_shape_recognition, include_diagram_detection) ==
    TryExcept500(complete_ai_analysis_body(svc, image, include_ocr, include_shape_recognition,
                                           include_diagram_detection),
                 "Complete analysis failed: ")

-----------------------------------------------------------------------------
(* Handler of the simplified service (main-simple.py) *)

\* the raise HTTPException(400) sits inside the try block whose
\* except Exception handler re-raises as HTTPException(500)
enhance_drawing_body(image, enhancement_type) ==
    LET pil_image == DecodeImage(image) IN
    IF pil_image.raised THEN pil_image
    ELSE IF enhancement_type = "upscale"
    THEN Ok([enhancement_type   |-> enhancement_type,
             enhanced_image_b64 |-> PngBase64([pil_image.value EXCEPT !.ops =
                                        Append(@, [op |-> "resize", args |-> <<2, 2>>])]),
             status             |-> "completed"])
    ELSE Raise(HTTPException(400, <<"Unsupported enhancement type: ", enhancement_type>>))

enhance_drawing(image, enhancement_type) ==
    TryExcept500(enhance_drawing_body(image, enhancement_type), "Error enhancing image: ")

-----------------------------------------------------------------------------
(* Requests *)

\* the module-level service objects as one record
Svc == [shape |-> shape_service, diagram |-> diagram_service,
        ocr |-> ocr_service, assistant |-> ai_assistant]

\* routing: the handler registered for the request's path
Handle(r, svc) ==
    CASE r.endpoint = "/ai/shape-recognition" ->
            recognize_shapes(svc.shape, r.image, r.clean_shapes)
      [] r.endpoint = "/ai/diagram-detection" ->
            detect_diagram(svc.diagram, r.image, r.clean_diagram)
      [] r.endpoint = "/ai/handwriting-recognition" ->
            recognize_handwriting(svc.ocr, r.image, r.enhance_image)
      [] r.endpoint = "/ai/suggest-diagram" ->
            suggest_diagram_handler(svc.assistant, r.description)
      [] r.endpoint = "/ai/suggest-icons" ->
            suggest_icons_handler(svc.assistant, r.context)
      [] r.endpoint = "/ai/auto-arrange" ->
            auto_arrange_handler(svc.assistant, r.shapes, r.canvas_width, r.canvas_height)
      [] r.endpoint = "/ai/generate-description" ->
            generate_description_handler(svc.assistant, r.diagram_type, r.elements, r.generated)
      [] r.endpoint = "/ai/complete-analysis" ->
            complete_ai_analysis(svc, r.image, r.include_ocr, r.include_shape_recognition,
                                 r.include_diagram_detection)
      [] r.endpoint = "/enhance-drawing" ->
            enhance_drawing(r.image, r.enhancement_type)

\* variant: the OCR reader is created on the first handwriting request
ServiceObjectsAfterLazyReader(svc, r) ==
    IF r.endpoint = "/ai/handwriting-recognition"
    THEN [svc EXCEPT !.ocr = [reader |-> "easyocr"]]
    ELSE svc

\* the try block of the handler registered for the request's path
HandlerBody(r, svc) ==
    CASE r.endpoint = "/ai/shape-recognition" ->
            recognize_shapes_body(svc.shape, r.image, r.clean_shapes)
      [] r.endpoint = "/ai/diagram-detection" ->
            detect_diagram_body(svc.diagram, r.image, r.clean_diagram)
      [] r.endpoint = "/ai/handwriting-recognition" ->
            recognize_handwriting_body(svc.ocr, r.image, r.enhance_image)
      [] r.endpoint = "/ai/suggest-diagram" ->
            Ok(suggest_diagram(r.description))
      [] r.endpoint = "/ai/suggest-icons" ->
            Ok([suggested_icons |-> suggest_icons(r.context), context |-> r.context])
      [] r.endpoint = "/ai/auto-arrange" ->
            auto_arrange_body(svc.assistant, r.shapes, r.canvas_width, r.canvas_height)
      [] r.endpoint = "/ai/generate-description" ->
            generate_description_body(svc.assistant, r.diagram_type, r.elements, r.generated)
      [] r.endpoint = "/ai/complete-analysis" ->
            complete_ai_analysis_body(svc, r.image, r.include_ocr, r.include_shape_recognition,
                                      r.include_diagram_detection)
      [] r.endpoint = "/enhance-drawing" ->
            enhance_drawing_body(r.image, r.enhancement_type)

\* The service objects after a request was handled.  No handler and no
\* service method assigns to an attribute of a service object: the only
\* assignments to self.* are in the four __init__ methods.
ServiceObjectsAfter(svc, r) == svc

-----------------------------------------------------------------------------
(* Inputs *)

\* all sequences over S of length at most n
SeqsUpTo(S, n) == UNION {[1..k -> S] : k \in 0..n}

\* uploads Pillow cannot decode, and decodable grayscale uploads
OtherImages ==
    {[BaseImage EXCEPT !.decodable = FALSE], [BaseImage EXCEPT !.mode = "L"]}

\* heights of the four-vertex contours: against them the widths 1..MaxSide
\* give the aspect ratios 0.2 .. 1.75, among them 0.75, 0.8, 1, 1.2 and 1.25
BoxHeights == {4, 5}

\* contours: every vertex count, and for four vertices every width against
\* the heights
Contour(vertices, w, h) ==
    [approx |-> [vertices |-> vertices, w |-> w, h |-> h], x |-> 10, y |-> 20, w |-> w, h |-> h]

Contours ==
    {Contour(v, 6, 4) : v \in (0..MaxVertices) \ {4}} \cup {Contour(4, w, h) : w \in 1..MaxSide, h \in BoxHeights}

ShapeImages ==
    {[BaseImage EXCEPT !.contours = cs] : cs \in SeqsUpTo(Contours, MaxContours)} \cup OtherImages

DiagramImages ==
    {[BaseImage EXCEPT !.lines = l, !.nodes = n] : l \in LineCounts, n \in NodeCounts}
        \cup OtherImages

\* one representative contour list per outcome of detect_shapes
AnalysisImages ==
    {[BaseImage EXCEPT !.lines = l, !.nodes = n, !.contours = cs] :
        l \in {0, 50, 51, 80, 81, MaxLines}, n \in {0, 14, 15, 16, 17, MaxNodes},
        cs \in {<<>>, <<Contour(3, 6, 4), Contour(7, 6, 4)>>}}
        \cup OtherImages

\* descriptions: fragments joined by single spaces,
Fragments ==
    {"Create a process workflow", "for user registration", "process", "PROCESS",
     "class", "design", "ideas", "organizational", "team"}

\* and the texts complete-analysis builds for the five diagram types
Descriptions ==
    {JoinWords(ws) : ws \in SeqsUpTo(Fragments, MaxWords)}
        \cup {CreateDiagramText(DiagramTypes[i]) : i \in 1..Len(DiagramTypes)}

ContextFragments ==
    {"business", "technology", "design", "education", "health", "Business", "diagram"}

Contexts == {JoinWords(ws) : ws \in SeqsUpTo(ContextFragments, 2)}

\* shapes of an auto-arrange request: with a bbox (and with further fields),
\* without one, with a short one
ArrangeShapes ==
    {[id |-> "a", bbox |-> <<5, 7, 30, 40>>],
     [id |-> "b", bbox |-> <<0, 0, 1, 2>>, type |-> "circle"],
     [id |-> "c"], [id |-> "d", bbox |-> <<1, 2, 3>>]}

ShapesFields ==
    {[valid |-> TRUE, data |-> ss] : ss \in SeqsUpTo(ArrangeShapes, MaxShapes)}
        \cup {[valid |-> FALSE, data |-> <<>>]}

CanvasSizes == {<<800, 600>>, <<3, 2>>, <<2, 2>>, <<0, 0>>}

ElementsFields ==
    {[valid |-> TRUE, data |-> [strings |-> TRUE, items |-> es]] :
        es \in SeqsUpTo({"Start", "End"}, MaxElements)}
        \cup {[valid |-> TRUE, data |-> [strings |-> FALSE, items |-> <<"1", "2">>]],
              [valid |-> FALSE, data |-> [strings |-> TRUE, items |-> <<>>]]}

\* detected-shape lists handed to clean_shapes: every label on two boxes
ShapeLabels == {"triangle", "rectangle", "diamond", "pentagon", "hexagon", "octagon", "circle"}

CleanShapes ==
    {[type |-> t, confidence |-> 85, bbox |-> b, vertices |-> 4] :
        t \in ShapeLabels, b \in {<<10, 20, 6, 4>>, <<0, 0, 5, 7>>}}

CleanShapeLists == SeqsUpTo(CleanShapes, MaxContours)

\* rasters handed to the cleaners: untouched, and one already drawn on
CleanImages ==
    {BaseImage, [BaseImage EXCEPT !.mode = "L"],
     [BaseImage EXCEPT !.ops = <<[op |-> "rectangle", args |-> <<1, 1, 2, 2>>]>>]}

\* type strings handed to clean_diagram: the five labels and two others
CleanTypes == {DiagramTypes[i] : i \in 1..Len(DiagramTypes)} \cup {"sequence", ""}

\* what a reader returns: detections (bbox, text, confidence); the
\* confidences are multiples of 0.12, so that the mean of up to four of them
\* is a whole number of hundredths
Detections == {<<"box", t, c>> : t \in {"hello", "world"}, c \in {12, 96}}

\* images handed to extract_text: RGB, grayscale and grayscale-with-alpha
\* rasters on which the reader raises or returns a list of detections
OcrImages ==
    {[BaseImage EXCEPT !.mode = m, !.readtext = r] :
        m \in {"RGB", "L", "LA"},
        r \in {Raise(Exc("RuntimeError", <<"reader failed">>))}
                 \cup {Ok(ds) : ds \in SeqsUpTo(Detections, MaxWords)}}

\* what the text-generation pipeline does with a prompt
Generations ==
    {Ok(<<"generated text">>), Raise(Exc("RuntimeError", <<"generation failed">>))}

EnhancementTypes == {"upscale", "sharpen", "denoise"}

-----------------------------------------------------------------------------
(* Sequential specification: one call at a time *)

NoRequest == [endpoint |-> "none"]
NoResponse == [status |-> 0, content |-> <<>>, detail |-> <<>>, escaped |-> FALSE]

Clients == 1..NumClients

Init ==
    /\ shape_service = ShapeRecognitionService_init
    /\ diagram_service = DiagramDetectionService_init
    /\ ocr_service = OCRService_init
    /\ ai_assistant \in {[text_generator |-> g] : g \in TextGenerators}
    /\ ml_manager = None          \* main.py does not import ml_services
    /\ request = NoRequest
    /\ response = NoResponse
    /\ pc = [c \in Clients |-> "idle"]
    /\ req = [c \in Clients |-> NoRequest]
    /\ resp = [c \in Clients |-> NoResponse]

SetServices(svc) ==
    /\ shape_service' = svc.shape
    /\ diagram_service' = svc.diagram
    /\ ocr_service' = svc.ocr
    /\ ai_assistant' = svc.assistant

\* the framework runs the handler for r and produces its outcome
Serve(r) ==
    /\ request' = r
    /\ response' = Respond(Handle(r, Svc))
    /\ SetServices(ServiceObjectsAfter(Svc, r))
    /\ UNCHANGED <<ml_manager, pc, req, resp>>

\* no call is being handled
Idle == request = NoRequest

PostShapeRecognition ==
    /\ Idle
    /\ \E image \in ShapeImages, clean \in BOOLEAN :
           Serve([endpoint |-> "/ai/shape-recognition", image |-> image, clean_shapes |-> clean])

PostDiagramDetection ==
    /\ Idle
    /\ \E image \in DiagramImages, clean \in BOOLEAN :
           Serve([endpoint |-> "/ai/diagram-detection", image |-> image, clean_diagram |-> clean])

PostHandwritingRecognition ==
    /\ Idle
    /\ \E image \in ShapeImages, enhance \in BOOLEAN :
           Serve([endpoint |-> "/ai/handwriting-recognition", image |-> image,
                  enhance_image |-> enhance])

PostSuggestDiagram ==
    /\ Idle
    /\ \E description \in Descriptions :
           Serve([endpoint |-> "/ai/suggest-diagram", description |-> description])

PostSuggestIcons ==
    /\ Idle
    /\ \E context \in Contexts :
           Serve([endpoint |-> "/ai/suggest-icons", context |-> context])

PostAutoArrange ==
    /\ Idle
    /\ \E shapes \in ShapesFields, canvas \in CanvasSizes :
           Serve([endpoint |-> "/ai/auto-arrange", shapes |-> shapes,
                  canvas_width |-> canvas[1], canvas_height |-> canvas[2]])

PostGenerateDescription ==
    /\ Idle
    /\ \E t \in {DiagramTypes[i] : i \in 1..Len(DiagramTypes)},
          elements \in ElementsFields, generated \in Generations :
           Serve([endpoint |-> "/ai/generate-description", diagram_type |-> t,
                  elements |-> elements, generated |-> generated])

PostCompleteAnalysis ==
    /\ Idle
    /\ \E image \in AnalysisImages, ocr \in BOOLEAN, shapes \in BOOLEAN, diagram \in BOOLEAN :
           Serve([endpoint |-> "/ai/complete-analysis", image |-> image, include_ocr |-> ocr,
                  include_shape_recognition |-> shapes, include_diagram_detection |-> diagram])

PostEnhanceDrawing ==
    /\ Idle
    /\ \E image \in {BaseImage} \cup OtherImages, t \in EnhancementTypes :
           Serve([endpoint |-> "/enhance-drawing", image |-> image, enhancement_type |-> t])

\* direct calls of service methods
CallClassifyDiagram ==
    /\ Idle
    /\ \E structure \in ScoreValues, connections \in ScoreValues, text \in ScoreValues :
           /\ request' = [endpoint |-> "_classify_diagram", structure |-> structure,
                          connections |-> connections, text |-> text]
           /\ response' = [NoResponse EXCEPT !.content =
                               [diagram_type |-> _classify_diagram(structure, connections, text)]]
           /\ UNCHANGED <<services, ml_manager, pc, req, resp>>

CallExtractText ==
    /\ Idle
    /\ \E image \in OtherImages \cup OcrImages :
           /\ request' = [endpoint |-> "extract_text", image |-> image]
           /\ response' = [NoResponse EXCEPT !.content = extract_text(ocr_service, image)]
           /\ UNCHANGED <<services, ml_manager, pc, req, resp>>

CallAutoArrange ==
    /\ Idle
    /\ \E shapes \in SeqsUpTo(ArrangeShapes, MaxShapes), canvas_size \in CanvasSizes :
           /\ request' = [endpoint |-> "auto_arrange_drawings", shapes |-> shapes,
                          canvas_size |-> canvas_size]
           /\ response' = [NoResponse EXCEPT !.content =
                               auto_arrange_call(shapes, canvas_size)]
           /\ UNCHANGED <<services, ml_manager, pc, req, resp>>

CallCleanShapes ==
    /\ Idle
    /\ \E image \in CleanImages, detected_shapes \in CleanShapeLists :
           /\ request' = [endpoint |-> "clean_shapes", image |-> image,
                          detected_shapes |-> detected_shapes]
           /\ response' = [NoResponse EXCEPT !.content =
                               clean_shapes_call(image, detected_shapes)]
           /\ UNCHANGED <<services, ml_manager, pc, req, resp>>

CallCleanDiagram ==
    /\ Idle
    /\ \E image \in CleanImages, diagram_type \in CleanTypes :
           /\ request' = [endpoint |-> "clean_diagram", image |-> image,
                          diagram_type |-> diagram_type]
           /\ response' = [NoResponse EXCEPT !.content =
                               clean_diagram_call(image, diagram_type)]
           /\ UNCHANGED <<services, ml_manager, pc, req, resp>>

\* the response is sent (the call returns) and the next call can be made
Return ==
    /\ request # NoRequest
    /\ request' = NoRequest
    /\ response' = NoResponse
    /\ UNCHANGED <<services, ml_manager, pc, req, resp>>

Next ==
    \/ PostShapeRecognition
    \/ PostDiagramDetection
    \/ PostHandwritingRecognition
    \/ PostSuggestDiagram
    \/ PostSuggestIcons
    \/ PostAutoArrange
    \/ PostGenerateDescription
    \/ PostCompleteAnalysis
    \/ PostEnhanceDrawing
    \/ CallClassifyDiagram
    \/ CallExtractText
    \/ CallAutoArrange
    \/ CallCleanShapes
    \/ CallCleanDiagram
    \/ Return

Spec == Init /\ [][Next]_vars

-----------------------------------------------------------------------------
(* OCR specification: OCRService with the easyocr lines of its constructor  *)
(* in place (ai_services.py:222-224).  The reader was built, or its         *)
(* construction failed and the reader is None.                              *)

InitOcr ==
    /\ shape_service = ShapeRecognitionService_init
    /\ diagram_service = DiagramDetectionService_init
    /\ ocr_service \in {OCRService_init, [reader |-> "easyocr"]}
    /\ ai_assistant = [text_generator |-> None]
    /\ ml_manager = None
    /\ request = NoRequest
    /\ response = NoResponse
    /\ pc = [c \in Clients |-> "idle"]
    /\ req = [c \in Clients |-> NoRequest]
    /\ resp = [c \in Clients |-> NoResponse]

NextOcr ==
    \/ CallExtractText
    \/ Return

SpecOcr == InitOcr /\ [][NextOcr]_vars

------------------------------------------------------------------------------
(* Model manager specification: one MLServiceManager (ml_services.py:15-76) *)
(* and the calls of its three methods.                                      *)

KnownModelTypes == {"image_classification", "text_generation", "image_to_image", "object_detection"}

\* the task name load_model hands to transformers.pipeline for a model type
PipelineTask(model_type) ==
    CASE model_type = "image_classification" -> "image-classification"
      [] model_type = "text_generation" -> "text-generation"
      [] model_type = "image_to_image" -> "image-to-image"
      [] model_type = "object_detection" -> "object-detection"

\* a map with the entry for key set to value (dict item assignment)
SetItem(map, key, value) ==
    [k \in DOMAIN map \cup {key} |-> IF k = key THEN value ELSE map[k]]

EmptyDict == [k \in {} |-> None]

\* torch.cuda.is_available() decides the device once and for all
MLServiceManager_init(cuda_available) ==
    [models             |-> EmptyDict,
     model_load_times   |-> EmptyDict,
     model_memory_usage |-> EmptyDict,
     device             |-> IF cuda_available THEN "cuda" ELSE "cpu"]

\* variant: the load time is entered before the pipeline is constructed
load_model_time_first(self, model_name, model_type, built, load_time, memory_allocated) ==
    LET timed == [self EXCEPT !.model_load_times = SetItem(@, model_name, load_time)]
    IN IF model_type \notin KnownModelTypes \/ built.raised
       THEN [self |-> timed, value |-> FALSE]
       ELSE [self |-> [timed EXCEPT !.models = SetItem(@, model_name,
                                        [model  |-> built.value,
                                         type   |-> model_type,
                                         device |-> self.device])],
             value |-> TRUE]

\* built is the outcome of transformers.pipeline(...), load_time what the
\* clock measured and memory_allocated what torch.cuda reports.  The method
\* returns False before any store for an unknown type and from the except
\* clause when the construction raises.
load_model(self, model_name, model_type, built, load_time, memory_allocated) ==
    IF model_type \notin KnownModelTypes THEN [self |-> self, value |-> FALSE]
    ELSE IF built.raised THEN [self |-> self, value |-> FALSE]
    ELSE LET stored == [self EXCEPT
                           !.models = SetItem(@, model_name,
                                              [model  |-> built.value,
                                               type   |-> model_type,
                                               device |-> self.device]),
                           !.model_load_times = SetItem(@, model_name, load_time)]
         IN [self  |-> IF self.device = "cuda"
                       THEN [stored EXCEPT !.model_memory_usage =
                                               SetItem(@, model_name, memory_allocated)]
                       ELSE stored,
             value |-> TRUE]

\* self.models.get(model_name, {}).get("model")
get_model(self, model_name) ==
    IF model_name \in DOMAIN self.models THEN self.models[model_name].model ELSE None

get_model_info(self) ==
    [name \in DOMAIN self.models |->
        [type         |-> self.models[name].type,
         device       |-> self.models[name].device,
         load_time    |-> Get(self.model_load_times, name, 0),
         memory_usage |-> Get(self.model_memory_usage, name, 0)]]

ModelNames == {"gpt2", "resnet"}

ModelTypes == KnownModelTypes \cup {"speech"}

LoadTimes == 1..MaxLoadTime

\* what the pipeline construction does: a pipeline object, or an exception
\* (a model that cannot be fetched, a task the model does not support)
PipelineOutcomes(model_type) ==
    {Raise(Exc("OSError", <<"model not found">>))}
        \cup (IF model_type \in KnownModelTypes THEN {Ok(PipelineTask(model_type))} ELSE {})

InitMl ==
    /\ shape_service = ShapeRecognitionService_init
    /\ diagram_service = DiagramDetectionService_init
    /\ ocr_service = OCRService_init
    /\ ai_assistant = [text_generator |-> None]
    /\ ml_manager \in {MLServiceManager_init(cuda) : cuda \in BOOLEAN}
    /\ request = NoRequest
    /\ response = NoResponse
    /\ pc = [c \in Clients |-> "idle"]
    /\ req = [c \in Clients |-> NoRequest]
    /\ resp = [c \in Clients |-> NoResponse]

\* request.self is the manager as it was when the call was made
LoadModel ==
    /\ Idle
    /\ \E model_name \in ModelNames, model_type \in ModelTypes, load_time \in LoadTimes :
         \E built \in PipelineOutcomes(model_type) :
           LET call == load_model(ml_manager, model_name, model_type, built, load_time, 3)
           IN /\ request' = [endpoint |-> "load_model", self |-> ml_manager,
                             model_name |-> model_name, model_type |-> model_type,
                             built |-> built]
              /\ ml_manager' = call.self
              /\ response' = [NoResponse EXCEPT !.content = call.value]
              /\ UNCHANGED <<services, pc, req, resp>>

GetModel ==
    /\ Idle
    /\ \E model_name \in ModelNames :
           /\ request' = [endpoint |-> "get_model", model_name |-> model_name]
           /\ response' = [NoResponse EXCEPT !.content = get_model(ml_manager, model_name)]
           /\ UNCHANGED <<services, ml_manager, pc, req, resp>>

GetModelInfo ==
    /\ Idle
    /\ request' = [endpoint |-> "get_model_info"]
    /\ response' = [NoResponse EXCEPT !.content = get_model_info(ml_manager)]
    /\ UNCHANGED <<services, ml_manager, pc, req, resp>>

NextMl ==
    \/ LoadModel
    \/ GetModel
    \/ GetModelInfo
    \/ Return

SpecMl == InitMl /\ [][NextMl]_vars

-----------------------------------------------------------------------------
(* Concurrent specification: requests of several clients in flight.        *)
(* A handler of an image endpoint is suspended at `await image.read()`;    *)
(* the handlers of the form endpoints contain no await and run in one      *)
(* step of the event loop.                                                 *)

ImageEndpoints ==
    {"/ai/shape-recognition", "/ai/diagram-detection", "/ai/handwriting-recognition",
     "/ai/complete-analysis"}

ConcRequests ==
    {[endpoint |-> "/ai/shape-recognition",
      image |-> [BaseImage EXCEPT !.contours = <<Contour(3, 6, 4)>>], clean_shapes |-> TRUE],
     [endpoint |-> "/ai/shape-recognition",
      image |-> [BaseImage EXCEPT !.decodable = FALSE], clean_shapes |-> FALSE],
     [endpoint |-> "/ai/diagram-detection",
      image |-> [BaseImage EXCEPT !.lines = 60, !.nodes = 16], clean_diagram |-> TRUE],
     [endpoint |-> "/ai/handwriting-recognition", image |-> BaseImage, enhance_image |-> FALSE],
     [endpoint |-> "/ai/complete-analysis", image |-> BaseImage, include_ocr |-> TRUE,
      include_shape_recognition |-> TRUE, include_diagram_detection |-> TRUE],
     [endpoint |-> "/ai/suggest-diagram", description |-> Chars("process")],
     [endpoint |-> "/ai/suggest-icons", context |-> Chars("business")],
     [endpoint |-> "/ai/auto-arrange",
      shapes |-> [valid |-> TRUE, data |-> <<[id |-> "a", bbox |-> <<5, 7, 30, 40>>], [id |-> "c"]>>],
      canvas_width |-> 800, canvas_height |-> 600],
     [endpoint |-> "/ai/generate-description", diagram_type |-> "flowchart",
      elements |-> [valid |-> TRUE, data |-> [strings |-> TRUE, items |-> <<"Start", "End">>]],
      generated |-> Ok(<<"generated text">>)]}

\* an image request arrives: the handler starts and awaits the upload
BeginImageRequest(c) ==
    /\ pc[c] = "idle"
    /\ \E r \in {q \in ConcRequests : q.endpoint \in ImageEndpoints} :
           req' = [req EXCEPT ![c] = r]
    /\ pc' = [pc EXCEPT ![c] = "await_read"]
    /\ UNCHANGED <<services, ml_manager, request, response, resp>>

\* the upload was read: the rest of the handler runs
ResumeImageRequest(c) ==
    /\ pc[c] = "await_read"
    /\ resp' = [resp EXCEPT ![c] = Respond(Handle(req[c], Svc))]
    /\ SetServices(ServiceObjectsAfter(Svc, req[c]))
    /\ pc' = [pc EXCEPT ![c] = "done"]
    /\ UNCHANGED <<ml_manager, request, response, req>>

\* a form request arrives and its handler runs to completion
HandleFormRequest(c) ==
    /\ pc[c] = "idle"
    /\ \E r \in {q \in ConcRequests : q.endpoint \notin ImageEndpoints} :
           /\ req' = [req EXCEPT ![c] = r]
           /\ resp' = [resp EXCEPT ![c] = Respond(Handle(r, Svc))]
           /\ SetServices(ServiceObjectsAfter(Svc, r))
    /\ pc' = [pc EXCEPT ![c] = "done"]
    /\ UNCHANGED <<ml_manager, request, response>>

\* the response is sent
SendResponse(c) ==
    /\ pc[c] = "done"
    /\ pc' = [pc EXCEPT ![c] = "idle"]
    /\ req' = [req EXCEPT ![c] = NoRequest]
    /\ resp' = [resp EXCEPT ![c] = NoResponse]
    /\ UNCHANGED <<services, ml_manager, request, response>>

NextConc ==
    \E c \in Clients :
        \/ BeginImageRequest(c)
        \/ ResumeImageRequest(c)
        \/ HandleFormRequest(c)
        \/ SendResponse(c)

SpecConc == Init /\ [][NextConc]_vars

-----------------------------------------------------------------------------
(* Properties *)

IsCall(endpoint) == request.endpoint = endpoint

\* C1: with the OCR reader unavailable, POST /ai/handwriting-recognition with
\* a decodable image succeeds and carries the degraded result (extracted_text
\* "", confidence 0.0), for either value of enhance_image.
C1_HandwritingDegradedSuccess ==
    (IsCall("/ai/handwriting-recognition") /\ request.image.decodable
        /\ ocr_service.reader = None)
    => /\ response.status = 200
       /\ response.content.extracted_text = <<>>
       /\ response.content.confidence = 0

\* C2: the simplified service answers POST /enhance-drawing with a decodable
\* image and an enhancement_type other than "upscale" with status 400.
C2_UnsupportedTypeIs400 ==
    (IsCall("/enhance-drawing") /\ request.image.decodable
        /\ request.enhancement_type # "upscale")
    => response.status = 400

\* C3: detect_diagram_type never returns uml or mindmap: for every image its
\* diagram_type is flowchart, network or organizational, its confidence is
\* 0.78 and its text_density is 0.3.
C3_NoUmlNoMindmap ==
    (IsCall("/ai/diagram-detection") /\ response.status = 200)
    => /\ response.content.diagram_type \in {"flowchart", "network", "organizational"}
       /\ response.content.diagram_type \notin {"uml", "mindmap"}
       /\ response.content.confidence = 78
       /\ response.content.analysis.text_density = 30

\* an image whose connection score exceeds 0.8 while the flowchart rule fails:
\* only the text density keeps the mindmap rule from firing
C3_Witness ==
    /\ IsCall("/ai/diagram-detection")
    /\ response.status = 200
    /\ response.content.analysis.connection_score > 80
    /\ response.content.analysis.structure_score <= 50
    /\ response.content.diagram_type = "organizational"

\* C4: _classify_diagram evaluates its five rules in priority order, first
\* match wins; (0.9, 0.9, 0.1) gives flowchart; the result is one of the five
\* labels.
C4_RulePriority ==
    IsCall("_classify_diagram") =>
        LET s  == request.structure
            c  == request.connections
            t  == request.text
            r1 == c > 70 /\ s > 50
            r2 == t > 60 /\ s > 40
            r3 == c > 80 /\ t < 30
            r4 == s > 80
            d  == response.content.diagram_type
        IN /\ r1 => d = "flowchart"
           /\ (~r1 /\ r2) => d = "uml"
           /\ (~r1 /\ ~r2 /\ r3) => d = "mindmap"
           /\ (~r1 /\ ~r2 /\ ~r3 /\ r4) => d = "network"
           /\ (~r1 /\ ~r2 /\ ~r3 /\ ~r4) => d = "organizational"
           /\ d \in {"flowchart", "uml", "mindmap", "network", "organizational"}
           /\ (s = 90 /\ c = 90 /\ t = 10) => d = "flowchart"

\* the scores (0.9, 0.9, 0.1): the flowchart, mindmap and network rules match
C4_Witness ==
    /\ IsCall("_classify_diagram")
    /\ request.structure = 90 /\ request.connections = 90 /\ request.text = 10
    /\ response.content.diagram_type = "flowchart"

\* C5: with reader None, extract_text returns text "", confidence 0.0 and the
\* error "OCR service not available" for every image; it does not raise and
\* does not call the reader.
C5_DisabledReader ==
    (IsCall("extract_text") /\ ocr_service.reader = None)
    => /\ ~response.content.raised
       /\ response.content.value.text = <<>>
       /\ response.content.value.confidence = 0
       /\ "error" \in DOMAIN response.content.value
       /\ response.content.value.error # <<>>
       /\ response.content.value.error = <<"OCR service not available">>
       /\ response.content.reader_calls = 0

\* extract_text was called with an image on which a reader would raise
C5_Witness ==
    /\ IsCall("extract_text")
    /\ ocr_service.reader = None
    /\ request.image.readtext.raised
    /\ response.content.value.confidence = 0

AiEndpoints ==
    {"/ai/shape-recognition", "/ai/diagram-detection", "/ai/handwriting-recognition",
     "/ai/suggest-diagram", "/ai/suggest-icons", "/ai/auto-arrange",
     "/ai/generate-description", "/ai/complete-analysis"}

FeaturePrefix(endpoint) ==
    CASE endpoint = "/ai/shape-recognition"       -> "Shape recognition failed: "
      [] endpoint = "/ai/diagram-detection"       -> "Diagram detection failed: "
      [] endpoint = "/ai/handwriting-recognition" -> "Handwriting recognition failed: "
      [] endpoint = "/ai/suggest-diagram"         -> "Diagram suggestion failed: "
      [] endpoint = "/ai/suggest-icons"           -> "Icon suggestion failed: "
      [] endpoint = "/ai/auto-arrange"            -> "Auto-arrangement failed: "
      [] endpoint = "/ai/generate-description"    -> "Description generation failed: "
      [] endpoint = "/ai/complete-analysis"       -> "Complete analysis failed: "

\* C6: for every POST /ai/* handler, an exception raised inside the handler
\* body becomes HTTP 500 whose detail is the feature prefix followed by the
\* exception message; the exception does not escape and no success payload
\* is returned.
C6_ExceptionsBecome500 ==
    (request.endpoint \in AiEndpoints /\ HandlerBody(request, Svc).raised)
    => /\ response.status = 500
       /\ ~response.escaped
       /\ DOMAIN response.content = {}
       /\ response.detail = <<FeaturePrefix(request.endpoint)>>
                                \o str(HandlerBody(request, Svc).exc)

\* auto-arrange was given a shape without a bbox
C6_Witness ==
    /\ IsCall("/ai/auto-arrange")
    /\ HandlerBody(request, Svc).raised
    /\ HandlerBody(request, Svc).exc.type = "KeyError"
    /\ response.status = 500
    /\ response.detail = <<"Auto-arrangement failed: ", "'", "bbox", "'">>

Matched(scores) == {t \in DOMAIN scores : scores[t] > 0}

\* position of a type in the fixed order
TypeIndex(t) == CHOOSE i \in 1..Len(DiagramTypes) : DiagramTypes[i] = t

\* C8: suggested_diagram has the maximal keyword-match count, and among the
\* types with that count it is the first in the order flowchart, uml,
\* mindmap, network, organizational; with no match at all it is flowchart.
C8_FirstMaximum ==
    (IsCall("/ai/suggest-diagram") /\ response.status = 200) =>
        LET scores == Scores(request.description)
            winner == response.content.suggested_diagram
        IN /\ \A t \in DOMAIN scores : scores[t] <= scores[winner]
           /\ \A t \in DOMAIN scores :
                  TypeIndex(t) < TypeIndex(winner) => scores[t] < scores[winner]
           /\ Matched(scores) = {} => winner = "flowchart"

\* uml and mindmap tie with a positive count: the earlier one wins
C8_Witness ==
    /\ IsCall("/ai/suggest-diagram")
    /\ response.status = 200
    /\ response.content.suggested_diagram = "uml"
    /\ Scores(request.description)["uml"] = 1
    /\ Scores(request.description)["mindmap"] = 1
    /\ Scores(request.description)["flowchart"] = 0

\* the keywords of type t that occur in the lower-cased description
Occurring(t, description) ==
    {k \in {suggestions[TypeIndex(t)].keywords[i] : i \in 1..5} :
        Contains(Chars(k), lower(description))}

\* C9: confidence is the winner's match count divided by 5, lies in [0, 1],
\* is 0 exactly when no keyword of any type occurs, and counts each keyword
\* once; "Create a process workflow", also followed by words that match
\* nothing, gives flowchart with confidence 2/5.
C9_Confidence ==
    (IsCall("/ai/suggest-diagram") /\ response.status = 200) =>
        LET d      == request.description
            winner == response.content.suggested_diagram
            conf   == response.content.confidence
        IN /\ conf * 5 = Cardinality(Occurring(winner, d)) * 100
           /\ conf >= 0 /\ conf <= 100
           /\ conf = 0 <=> \A i \in 1..Len(DiagramTypes) : Occurring(DiagramTypes[i], d) = {}
           /\ d \in {JoinWords(<<"Create a process workflow">>),
                     JoinWords(<<"Create a process workflow", "for user registration">>)}
                => (winner = "flowchart" /\ conf = 40)

\* one keyword occurring more than once in the description
C9_Witness ==
    /\ IsCall("/ai/suggest-diagram")
    /\ request.description = JoinWords(<<"process", "PROCESS">>)
    /\ response.content.suggested_diagram = "flowchart"
    /\ response.content.confidence = 20

\* C10: alternatives are exactly the types with a positive count other than
\* the winner, in the fixed type order; the winner is not among them, none
\* has a higher count than the winner, and there are none when at most one
\* type matched.
C10_Alternatives ==
    (IsCall("/ai/suggest-diagram") /\ response.status = 200) =>
        LET scores == Scores(request.description)
            winner == response.content.suggested_diagram
            alts   == response.content.alternatives
        IN /\ {alts[i] : i \in 1..Len(alts)} = Matched(scores) \ {winner}
           /\ \A i, j \in 1..Len(alts) : i < j => TypeIndex(alts[i]) < TypeIndex(alts[j])
           /\ \A i \in 1..Len(alts) : alts[i] # winner /\ scores[alts[i]] <= scores[winner]
           /\ Cardinality(Matched(scores)) <= 1 => alts = <<>>

\* three types matched: two alternatives, in type order
C10_Witness ==
    /\ IsCall("/ai/suggest-diagram")
    /\ response.status = 200
    /\ response.content.suggested_diagram = "uml"
    /\ response.content.alternatives = <<"mindmap", "organizational">>

\* a successful auto-arrange call, its input list and its output list
ArrangeOk == IsCall("/ai/auto-arrange") /\ response.status = 200
ArrangeInput == request.shapes.data
ArrangeOutput == response.content.arranged_shapes

\* ceil(sqrt(n)) and ceil(n / cols) by their defining inequalities
GridCols(n) == CHOOSE c \in 1..n : (c - 1) * (c - 1) < n /\ n <= c * c
GridRows(n) == CHOOSE r \in 1..n : (r - 1) * GridCols(n) < n /\ n <= r * GridCols(n)

\* C11: for a non-empty list of n shapes the grid has ceil(sqrt(n)) columns
\* and ceil(n / cols) rows and shape i lies in cell (i div cols, i mod cols):
\* its position falls into that cell's extent of the canvas; the grid has
\* room, every assigned cell is inside it, no two shapes share a cell (nor
\* a position); for n = 5 the grid is 3 by 2.
C11_Grid ==
    (ArrangeOk /\ Len(ArrangeInput) >= 1) =>
        LET n    == Len(ArrangeInput)
            cols == GridCols(n)
            rows == GridRows(n)
            cw   == request.canvas_width \div cols
            ch   == request.canvas_height \div rows
            out  == ArrangeOutput
        IN /\ rows * cols >= n
           /\ \A i \in 0..(n - 1) : i \div cols < rows /\ i % cols < cols
           /\ \A i, j \in 0..(n - 1) :
                  i # j => <<i \div cols, i % cols>> # <<j \div cols, j % cols>>
           /\ (cw >= 1 /\ ch >= 1) =>
                  /\ \A i \in 0..(n - 1) :
                         /\ out[i + 1].bbox[1] \div cw = i % cols
                         /\ out[i + 1].bbox[2] \div ch = i \div cols
                         /\ out[i + 1].bbox[1] < request.canvas_width
                         /\ out[i + 1].bbox[2] < request.canvas_height
                  /\ \A i, j \in 0..(n - 1) :
                         i # j => <<out[i + 1].bbox[1], out[i + 1].bbox[2]>>
                                    # <<out[j + 1].bbox[1], out[j + 1].bbox[2]>>
           /\ n = 5 => /\ cols = 3 /\ rows = 2
                       /\ (cw >= 1 /\ ch >= 1) =>
                              (out[4].bbox[1] \div cw = 0 /\ out[4].bbox[2] \div ch = 1)

\* five shapes on the 800x600 canvas: the fourth starts the second row
C11_Witness ==
    /\ ArrangeOk
    /\ Len(ArrangeInput) = 5
    /\ request.canvas_width = 800 /\ request.canvas_height = 600
    /\ ArrangeOutput[3].bbox[1] > 2 * (800 \div 3)
    /\ ArrangeOutput[4].bbox[1] < 800 \div 3
    /\ ArrangeOutput[4].bbox[2] > 600 \div 2

\* C12 as stated: with cell_width = canvas_width / cols and cell_height =
\* canvas_height / rows (exact quotients), x = cell_width/2 + col*cell_width
\* and y = cell_height/2 + row*cell_height; cleared of denominators,
\* 2*cols*x = (2*col + 1)*canvas_width and 2*rows*y = (2*row + 1)*canvas_height.
C12_ExactCentres ==
    (ArrangeOk /\ Len(ArrangeInput) >= 1) =>
        LET n    == Len(ArrangeInput)
            cols == GridCols(n)
            rows == GridRows(n)
        IN \A i \in 0..(n - 1) :
              /\ 2 * cols * ArrangeOutput[i + 1].bbox[1]
                    = (2 * (i % cols) + 1) * request.canvas_width
              /\ 2 * rows * ArrangeOutput[i + 1].bbox[2]
                    = (2 * (i \div cols) + 1) * request.canvas_height

\* C12 (amended): with cell_width = canvas_width // cols and cell_height =
\* canvas_height // rows (floor division), x = cell_width // 2 + col*cell_width
\* and y = cell_height // 2 + row*cell_height, for every n >= 1 and every
\* canvas size; for n = 5 on 800x600 the cells are 266 by 300 and the
\* positions are x in {133, 399, 665}, y in {150, 450}.
C12_FloorCentres ==
    (ArrangeOk /\ Len(ArrangeInput) >= 1) =>
        LET n    == Len(ArrangeInput)
            cols == GridCols(n)
            rows == GridRows(n)
            cw   == request.canvas_width \div cols
            ch   == request.canvas_height \div rows
            out  == ArrangeOutput
        IN /\ \A i \in 0..(n - 1) :
                  /\ out[i + 1].bbox[1] = cw \div 2 + (i % cols) * cw
                  /\ out[i + 1].bbox[2] = ch \div 2 + (i \div cols) * ch
           /\ (n = 5 /\ request.canvas_width = 800 /\ request.canvas_height = 600) =>
                  /\ cw = 266 /\ ch = 300
                  /\ [i \in 1..5 |-> out[i].bbox[1]] = <<133, 399, 665, 133, 399>>
                  /\ [i \in 1..5 |-> out[i].bbox[2]] = <<150, 150, 150, 450, 450>>

\* five shapes on the 800x600 canvas: 800 is not a multiple of 3
C12_Witness ==
    /\ ArrangeOk
    /\ Len(ArrangeInput) = 5
    /\ request.canvas_width = 800 /\ request.canvas_height = 600
    /\ ArrangeOutput[5].bbox[1] = 399 /\ ArrangeOutput[5].bbox[2] = 450

\* C13: the output has the length and order of the input (an empty input
\* gives an empty output and shapes_count 0); output shape i has the bbox
\* width and height and the non-bbox fields of input shape i; only bbox x
\* and y differ.
C13_OnlyPositions ==
    /\ (IsCall("/ai/auto-arrange") /\ request.shapes.valid /\ Len(ArrangeInput) = 0) =>
           /\ response.status = 200
           /\ ArrangeOutput = <<>>
           /\ response.content.shapes_count = 0
    /\ ArrangeOk =>
           /\ Len(ArrangeOutput) = Len(ArrangeInput)
           /\ response.content.shapes_count = Len(ArrangeInput)
           /\ \A i \in 1..Len(ArrangeInput) :
                  /\ DOMAIN ArrangeOutput[i] = DOMAIN ArrangeInput[i]
                  /\ \A f \in DOMAIN ArrangeInput[i] \ {"bbox"} :
                         ArrangeOutput[i][f] = ArrangeInput[i][f]
                  /\ Len(ArrangeOutput[i].bbox) = Len(ArrangeInput[i].bbox)
                  /\ ArrangeOutput[i].bbox[3] = ArrangeInput[i].bbox[3]
                  /\ ArrangeOutput[i].bbox[4] = ArrangeInput[i].bbox[4]

\* two shapes with different sizes and fields, moved off their old positions
C13_Witness ==
    /\ ArrangeOk
    /\ Len(ArrangeInput) = 3
    /\ ArrangeInput[1].id = "b" /\ ArrangeInput[2].id = "a" /\ ArrangeInput[3].id = "b"
    /\ ArrangeOutput[1].type = "circle" /\ ArrangeOutput[2].id = "a"
    /\ ArrangeOutput[1].bbox[1] # ArrangeInput[1].bbox[1]
    /\ ArrangeOutput[2].bbox[3] = 30 /\ ArrangeOutput[3].bbox[4] = 2

\* a successful shape-recognition call, the contours found and the shapes returned
ShapeOk == IsCall("/ai/shape-recognition") /\ response.status = 200
FoundContours == request.image.contours
ReturnedShapes == response.content.shapes

\* C14: a contour whose approximation has v vertices is reported as triangle
\* (3), pentagon (5), hexagon (6), octagon (8) or circle (v > 8); for v = 0,
\* 1, 2 and 7 nothing is emitted: the shapes are the remaining contours, in
\* order.
C14_VertexCounts ==
    ShapeOk =>
        LET kept == SelectSeq(FoundContours, LAMBDA c : c.approx.vertices \notin {0, 1, 2, 7})
        IN /\ Len(ReturnedShapes) = Len(kept)
           /\ \A i \in 1..Len(kept) :
                  LET v == kept[i].approx.vertices
                      t == ReturnedShapes[i].type
                  IN /\ ReturnedShapes[i].vertices = v
                     /\ t # None
                     /\ v = 3 => t = "triangle"
                     /\ v = 5 => t = "pentagon"
                     /\ v = 6 => t = "hexagon"
                     /\ v = 8 => t = "octagon"
                     /\ v > 8 => t = "circle"
                     /\ v = 4 => t \in {"diamond", "rectangle"}

\* a seven-vertex contour dropped and a ten-vertex one reported as circle
C14_Witness ==
    /\ ShapeOk
    /\ Len(FoundContours) = 2
    /\ FoundContours[1].approx.vertices = 7
    /\ FoundContours[2].approx.vertices = 10
    /\ Len(ReturnedShapes) = 1
    /\ ReturnedShapes[1].type = "circle"

\* C15: a four-vertex approximation with bounding box w by h is always
\* reported, as diamond when 0.8 <= w/h <= 1.2 (bounds included) and as
\* rectangle otherwise; a square is a diamond.
C15_DiamondOrRectangle ==
    ShapeOk =>
        LET four   == SelectSeq(FoundContours, LAMBDA c : c.approx.vertices = 4)
            shapes == SelectSeq(ReturnedShapes, LAMBDA sh : sh.vertices = 4)
        IN /\ Len(shapes) = Len(four)
           /\ \A i \in 1..Len(four) :
                  LET w == four[i].approx.w
                      h == four[i].approx.h
                      t == shapes[i].type
                  IN /\ (4 * h <= 5 * w /\ 5 * w <= 6 * h) => t = "diamond"
                     /\ (4 * h > 5 * w \/ 5 * w > 6 * h) => t = "rectangle"
                     /\ w = h => t = "diamond"
                     /\ (w = 4 /\ h = 5) => t = "diamond"
                     /\ (w = 6 /\ h = 5) => t = "diamond"
                     /\ (w = 3 /\ h = 4) => t = "rectangle"
                     /\ (w = 5 /\ h = 4) => t = "rectangle"

\* the two boundary ratios 0.8 and 1.2 in one image
C15_Witness ==
    /\ ShapeOk
    /\ Len(ReturnedShapes) = 2
    /\ ReturnedShapes[1].bbox[3] = 4 /\ ReturnedShapes[1].bbox[4] = 5
    /\ ReturnedShapes[2].bbox[3] = 6 /\ ReturnedShapes[2].bbox[4] = 5
    /\ ReturnedShapes[1].type = "diamond" /\ ReturnedShapes[2].type = "diamond"

\* C17: cleaned_shapes is true exactly when the clean_shapes flag is set and
\* a shape was detected; cleaned_image is present exactly when cleaned_shapes
\* is true; shapes_detected is the length of shapes and at most total_contours.
C17_CleanedFlag ==
    ShapeOk =>
        /\ response.content.cleaned_shapes
               = (request.clean_shapes /\ Len(ReturnedShapes) >= 1)
        /\ ("cleaned_image" \in DOMAIN response.content) = response.content.cleaned_shapes
        /\ response.content.shapes_detected = Len(ReturnedShapes)
        /\ response.content.shapes_detected <= response.content.total_contours
        /\ response.content.total_contours = Len(FoundContours)

\* cleaning requested for an image whose only contour is no shape
C17_Witness ==
    /\ ShapeOk
    /\ request.clean_shapes
    /\ response.content.total_contours = 1
    /\ response.content.shapes_detected = 0
    /\ ~response.content.cleaned_shapes
    /\ "cleaned_image" \notin DOMAIN response.content

\* a successful complete-analysis call and its analysis object
AnalysisOk == IsCall("/ai/complete-analysis") /\ response.status = 200
Analysis == response.content.analysis

OccurringCategories(context) ==
    {i \in 1..5 : Contains(Chars(<<"business", "technology", "design", "education", "health">>[i]),
                           lower(context))}

\* C18: suggest_icons returns the icons of the first category, in the order
\* business, technology, design, education, health, whose name occurs in the
\* lower-cased context, and the default list when none occurs; the order of
\* the names inside the context does not matter.
C18_FirstCategory ==
    (IsCall("/ai/suggest-icons") /\ response.status = 200) =>
        LET occ   == OccurringCategories(request.context)
            first == CHOOSE i \in occ : \A j \in occ : i <= j
            names == <<"business", "technology", "design", "education", "health">>
        IN /\ occ = {} => response.content.suggested_icons = Icons("default")
           /\ occ # {} => response.content.suggested_icons = Icons(names[first])
           /\ {1, 2} \subseteq occ => response.content.suggested_icons = Icons("business")
           /\ response.content.context = request.context

\* the later category is named first in the context
C18_Witness ==
    /\ IsCall("/ai/suggest-icons")
    /\ request.context = JoinWords(<<"technology", "Business">>)
    /\ response.content.suggested_icons = Icons("business")

\* a successful diagram-detection call
DiagramOk == IsCall("/ai/diagram-detection") /\ response.status = 200

\* C19: with L Hough lines and N nodes, structure_score = min(L/100, 1) and
\* connection_score = min(N/20, 1), both in [0, 1]; the label is flowchart
\* exactly when N >= 15 and L >= 51, otherwise network exactly when L >= 81,
\* otherwise organizational; N = 14, L = 50 and L = 80 do not pass the
\* thresholds.
C19_ScoresAndLabel ==
    DiagramOk =>
        LET L    == request.image.lines
            N    == request.image.nodes
            a    == response.content.analysis
            d    == response.content.diagram_type
            flow == N >= 15 /\ L >= 51
        IN /\ a.structure_score = (IF L >= 100 THEN 100 ELSE L)
           /\ a.connection_score = (IF N >= 20 THEN 100 ELSE 5 * N)
           /\ 0 <= a.structure_score /\ a.structure_score <= 100
           /\ 0 <= a.connection_score /\ a.connection_score <= 100
           /\ (d = "flowchart") = flow
           /\ (d = "network") = (~flow /\ L >= 81)
           /\ (d = "organizational") = (~flow /\ L < 81)
           /\ N = 14 => d # "flowchart"
           /\ L = 50 => d # "flowchart"
           /\ (L = 80 /\ N = 14) => d = "organizational"

\* the boundary counts: fourteen nodes and eighty lines
C19_Witness ==
    /\ DiagramOk
    /\ request.image.lines = 80 /\ request.image.nodes = 14
    /\ response.content.analysis.structure_score = 80
    /\ response.content.analysis.connection_score = 70
    /\ response.content.diagram_type = "organizational"

\* what suggest_diagram makes of "Create a <t> diagram"
SuggestionFor(t) ==
    IF t = "organizational"
    THEN [suggested_diagram |-> "mindmap", confidence |-> 20,
          reasoning |-> <<"Based on keywords: ", "mindmap">>, alternatives |-> <<>>]
    ELSE [suggested_diagram |-> "flowchart", confidence |-> 0,
          reasoning |-> <<"Based on keywords: ">>, alternatives |-> <<>>]

\* C20: the suggestions of complete-analysis follow from the detected type
\* alone: flowchart with confidence 0 for a detected flowchart, network, uml
\* or mindmap, and mindmap with confidence 1/5 for a detected organizational;
\* the suggested type equals the detected one only for flowchart.  The same
\* holds of suggest_diagram on the text built for each of the five types.
C20_SuggestionsFromType ==
    /\ (AnalysisOk /\ request.include_diagram_detection) =>
           LET t == Analysis.diagram.diagram_type IN
           /\ Analysis.suggestions = SuggestionFor(t)
           /\ Analysis.suggestions.suggested_diagram = t => t = "flowchart"
           /\ t \in {"flowchart", "network", "uml", "mindmap"} =>
                  /\ Analysis.suggestions.suggested_diagram = "flowchart"
                  /\ Analysis.suggestions.confidence = 0
           /\ t = "organizational" =>
                  /\ Analysis.suggestions.suggested_diagram = "mindmap"
                  /\ Analysis.suggestions.confidence * 5 = 100
    /\ \A i \in 1..Len(DiagramTypes) :
           (IsCall("/ai/suggest-diagram")
               /\ request.description = CreateDiagramText(DiagramTypes[i]))
           => response.content = SuggestionFor(DiagramTypes[i])

\* an image detected as organizational gets the suggestion mindmap
C20_Witness ==
    /\ AnalysisOk
    /\ request.include_diagram_detection
    /\ Analysis.diagram.diagram_type = "organizational"
    /\ Analysis.suggestions.suggested_diagram = "mindmap"
    /\ Analysis.suggestions.confidence = 20

\* C21: for n >= 1 shapes on a canvas at least cols wide and rows high every
\* position lies inside the canvas and shapes with different indices get
\* different positions; no division by zero occurs for any n >= 1: a list
\* of shapes with usable boxes is arranged on every canvas.
C21_InsideCanvas ==
    /\ (ArrangeOk /\ Len(ArrangeInput) >= 1
           /\ request.canvas_width >= GridCols(Len(ArrangeInput))
           /\ request.canvas_height >= GridRows(Len(ArrangeInput))) =>
           LET n   == Len(ArrangeInput)
               out == ArrangeOutput
           IN /\ \A i \in 1..n :
                     /\ 0 <= out[i].bbox[1] /\ out[i].bbox[1] < request.canvas_width
                     /\ 0 <= out[i].bbox[2] /\ out[i].bbox[2] < request.canvas_height
              /\ \A i, j \in 1..n :
                     i # j => (out[i].bbox[1] # out[j].bbox[1] \/ out[i].bbox[2] # out[j].bbox[2])
    /\ (IsCall("/ai/auto-arrange") /\ request.shapes.valid /\ Len(ArrangeInput) >= 1) =>
           LET body == HandlerBody(request, Svc) IN
           /\ body.raised => body.exc.type # "ZeroDivisionError"
           /\ (\A i \in 1..Len(ArrangeInput) :
                   "bbox" \in DOMAIN ArrangeInput[i] /\ Len(ArrangeInput[i].bbox) >= 4)
                 => response.status = 200

\* five shapes on a canvas of exactly 3 by 2 pixels: one shape per pixel
C21_Witness ==
    /\ ArrangeOk
    /\ Len(ArrangeInput) = 5
    /\ request.canvas_width = 3 /\ request.canvas_height = 2
    /\ ArrangeOutput[3].bbox[1] = 2 /\ ArrangeOutput[3].bbox[2] = 0
    /\ ArrangeOutput[5].bbox[1] = 1 /\ ArrangeOutput[5].bbox[2] = 1

\* C22: detect_shapes emits one shape, in contour order, for each contour
\* with 3, 4, 5, 6, 8 or more than 8 vertices and none for the others;
\* shapes_detected is the length of shapes and at most total_contours; every
\* type is one of the seven labels and every confidence is 0.85.
C22_OneShapePerContour ==
    ShapeOk =>
        LET emitting == {i \in 1..Len(FoundContours) :
                            \/ FoundContours[i].approx.vertices \in {3, 4, 5, 6, 8}
                            \/ FoundContours[i].approx.vertices > 8}
            \* the position among the shapes of the shape for contour i
            rank(i)  == Cardinality({j \in emitting : j <= i})
        IN /\ Len(ReturnedShapes) = Cardinality(emitting)
           /\ \A i \in emitting :
                  /\ ReturnedShapes[rank(i)].vertices = FoundContours[i].approx.vertices
                  /\ ReturnedShapes[rank(i)].bbox =
                        <<FoundContours[i].x, FoundContours[i].y,
                          FoundContours[i].w, FoundContours[i].h>>
           /\ response.content.shapes_detected = Len(ReturnedShapes)
           /\ response.content.shapes_detected <= response.content.total_contours
           /\ \A k \in 1..Len(ReturnedShapes) :
                  /\ ReturnedShapes[k].type \in {"triangle", "rectangle", "diamond", "pentagon",
                                                  "hexagon", "octagon", "circle"}
                  /\ ReturnedShapes[k].confidence = 85

\* a triangle and then a circle: two shapes in that order
C22_Witness ==
    /\ ShapeOk
    /\ Len(FoundContours) = 2
    /\ response.content.shapes_detected = 2
    /\ ReturnedShapes[1].type = "triangle" /\ ReturnedShapes[2].type = "circle"
    /\ ReturnedShapes[1].confidence = 85 /\ ReturnedShapes[2].confidence = 85

\* extract_text was called on a service whose reader is present
OcrCall == IsCall("extract_text") /\ ocr_service.reader # None

\* the detections the reader returns for the image of the call
OcrDetections == request.image.readtext.value

\* C23: with an enabled reader an exception of the image conversion or of
\* the reader is returned as text "", confidence 0.0 and error set to the
\* exception message; extract_text never propagates an exception, and every
\* result, with or without a reader, has the fields text and confidence.
C23_ReaderErrorsCaught ==
    IsCall("extract_text") =>
        /\ ~response.content.raised
        /\ {"text", "confidence"} \subseteq DOMAIN response.content.value
        /\ (ocr_service.reader # None /\ request.image.mode = "LA") =>
               /\ response.content.value =
                     [text |-> <<>>, confidence |-> 0,
                      error |-> <<"Invalid number of channels in input image">>]
               /\ response.content.reader_calls = 0
        /\ (ocr_service.reader # None /\ request.image.mode # "LA"
               /\ request.image.readtext.raised) =>
               response.content.value =
                   [text |-> <<>>, confidence |-> 0,
                    error |-> request.image.readtext.exc.args]

\* the reader raised on an RGB image
C23_Witness ==
    /\ OcrCall
    /\ request.image.mode = "RGB"
    /\ request.image.readtext.raised
    /\ response.content.reader_calls = 1
    /\ response.content.value.error = <<"reader failed">>

\* C24: with an enabled reader returning detections, text is the detection
\* texts joined by single spaces in detection order, words are the
\* detections in the same order, word_count is their number and confidence
\* is the arithmetic mean of their confidences, 0.0 with text "" when there
\* are none.
C24_JoinedTextAndMean ==
    (OcrCall /\ request.image.mode # "LA" /\ ~request.image.readtext.raised) =>
        LET n == Len(OcrDetections)
            v == response.content.value
        IN /\ DOMAIN v = {"text", "confidence", "words", "word_count"}
           /\ v.word_count = n
           /\ Len(v.words) = n
           /\ \A i \in 1..n :
                  /\ v.words[i].text = OcrDetections[i][2]
                  /\ v.words[i].confidence = OcrDetections[i][3]
                  /\ v.words[i].bbox = OcrDetections[i][1]
           /\ n = 0 => (v.text = <<>> /\ v.confidence = 0)
           /\ n >= 1 =>
                  /\ Len(v.text) = 2 * n - 1
                  /\ \A i \in 1..n : v.text[2 * i - 1] = OcrDetections[i][2]
                  /\ \A i \in 1..(n - 1) : v.text[2 * i] = " "
                  /\ v.confidence * n = SumSeq([i \in 1..n |-> OcrDetections[i][3]])

\* three detections with the confidences 0.12, 0.96 and 0.12: mean 0.40
C24_Witness ==
    /\ OcrCall
    /\ ~request.image.readtext.raised
    /\ OcrDetections = <<<<"box", "hello", 12>>, <<"box", "world", 96>>, <<"box", "hello", 12>>>>
    /\ response.content.value.text = <<"hello", " ", "world", " ", "hello">>
    /\ response.content.value.confidence = 40
    /\ response.content.value.word_count = 3

\* C25: cleaned_diagram is true and cleaned_image is present exactly when
\* the clean_diagram flag is set, whatever type was detected; the endpoint
\* never applies the 3x3 opening, and for a detected network or
\* organizational diagram the cleaned image is the decoded upload.
C25_CleanedDiagramFlag ==
    DiagramOk =>
        /\ response.content.cleaned_diagram = request.clean_diagram
        /\ ("cleaned_image" \in DOMAIN response.content) = request.clean_diagram
        /\ request.clean_diagram =>
               LET cleaned == response.content.cleaned_image
                   t       == response.content.diagram_type
               IN /\ \A k \in 1..Len(cleaned.ops) : cleaned.ops[k].op # "MORPH_OPEN"
                  /\ t \in {"network", "organizational"} =>
                         (cleaned.ops = request.image.ops /\ cleaned.mode = request.image.mode)
                  /\ t = "flowchart" =>
                         cleaned.ops = request.image.ops
                                          \o <<[op |-> "MORPH_CLOSE", args |-> <<2, 2>>]>>

\* cleaning requested for an image detected as network
C25_Witness ==
    /\ DiagramOk
    /\ request.clean_diagram
    /\ response.content.diagram_type = "network"
    /\ response.content.cleaned_diagram
    /\ response.content.cleaned_image.ops = <<>>

\* the overlay clean_shapes is to draw for a shape of one of the three types
ExpectedOverlay(shape) ==
    LET x == shape.bbox[1]
        y == shape.bbox[2]
        w == shape.bbox[3]
        h == shape.bbox[4]
    IN CASE shape.type = "rectangle" ->
              [op |-> "rectangle", args |-> <<x, y, x + w, y + h>>]
         [] shape.type = "circle" ->
              [op |-> "circle",
               args |-> <<x + w \div 2, y + h \div 2, (IF w <= h THEN w ELSE h) \div 2>>]
         [] shape.type = "triangle" ->
              [op |-> "polylines", args |-> <<x, y + h, x + w \div 2, y, x + w, y + h>>]

\* C26: clean_shapes leaves its input raster and the shape list as they
\* were; the returned raster is the input with one overlay, in list order,
\* for each rectangle, circle (radius min(w,h) div 2 at the box centre) and
\* triangle (apex at the top mid-point, base on the bottom edge) and none
\* for other types: a list of other types only gives the input's pixels.
C26_CleanShapesOverlays ==
    IsCall("clean_shapes") =>
        LET shapes  == request.detected_shapes
            drawn   == {i \in 1..Len(shapes) :
                           shapes[i].type \in {"rectangle", "circle", "triangle"}}
            rank(i) == Cardinality({j \in drawn : j <= i})
            before  == Len(request.image.ops)
            cleaned == response.content.cleaned_image
        IN /\ response.content.image = request.image
           /\ response.content.detected_shapes = request.detected_shapes
           /\ Len(cleaned.ops) = before + Cardinality(drawn)
           /\ \A k \in 1..before : cleaned.ops[k] = request.image.ops[k]
           /\ \A i \in drawn : cleaned.ops[before + rank(i)] = ExpectedOverlay(shapes[i])
           /\ [cleaned EXCEPT !.ops = request.image.ops] = request.image
           /\ drawn = {} => cleaned = request.image

\* a diamond followed by a circle on an odd-sized box: one overlay
C26_Witness ==
    /\ IsCall("clean_shapes")
    /\ Len(request.detected_shapes) = 2
    /\ request.detected_shapes[1].type = "diamond"
    /\ request.detected_shapes[2].type = "circle"
    /\ request.detected_shapes[2].bbox = <<0, 0, 5, 7>>
    /\ request.image.ops = <<>>
    /\ Len(response.content.cleaned_image.ops) = 1
    /\ response.content.cleaned_image.ops[1].args = <<2, 3, 2>>

\* C27: clean_diagram chooses by the type alone: a 2x2 closing for flowchart
\* and mindmap, a 3x3 opening for uml, nothing for network, organizational
\* and any other string (the result is then the input); the input raster is
\* left as it was.
C27_CleanDiagramByType ==
    IsCall("clean_diagram") =>
        LET t       == request.diagram_type
            cleaned == response.content.cleaned
            added   == SubSeq(cleaned.ops, Len(request.image.ops) + 1, Len(cleaned.ops))
        IN /\ response.content.image = request.image
           /\ [cleaned EXCEPT !.ops = request.image.ops] = request.image
           /\ SubSeq(cleaned.ops, 1, Len(request.image.ops)) = request.image.ops
           /\ t \in {"flowchart", "mindmap"} =>
                  added = <<[op |-> "MORPH_CLOSE", args |-> <<2, 2>>]>>
           /\ t = "uml" => added = <<[op |-> "MORPH_OPEN", args |-> <<3, 3>>]>>
           /\ t \notin {"flowchart", "mindmap", "uml"} => cleaned = request.image

\* an unrecognised type string on a raster that was drawn on before
C27_Witness ==
    /\ IsCall("clean_diagram")
    /\ request.diagram_type = "sequence"
    /\ request.image.ops # <<>>
    /\ response.content.cleaned = request.image

\* C28: after any sequence of load_model calls the names in
\* model_load_times are exactly the names in models and the names in
\* model_memory_usage are among them; a call with an unknown type or a
\* failing pipeline construction returns False and leaves the three maps as
\* they were; a successful call returns True and stores one of the four
\* known types under the given name, replacing an earlier entry; get_model
\* is non-null exactly for the names in models and get_model_info has
\* exactly those names as keys.
C28_ModelMaps ==
    /\ DOMAIN ml_manager.model_load_times = DOMAIN ml_manager.models
    /\ DOMAIN ml_manager.model_memory_usage \subseteq DOMAIN ml_manager.models
    /\ IsCall("load_model") =>
           LET before == request.self
               name   == request.model_name
           IN IF request.model_type \notin KnownModelTypes \/ request.built.raised
              THEN response.content = FALSE /\ ml_manager = before
              ELSE /\ response.content = TRUE
                   /\ DOMAIN ml_manager.models = DOMAIN before.models \cup {name}
                   /\ ml_manager.models[name].type = request.model_type
                   /\ ml_manager.models[name].type \in KnownModelTypes
                   /\ \A n \in DOMAIN before.models \ {name} :
                          ml_manager.models[n] = before.models[n]
    /\ IsCall("get_model") =>
           ((response.content # None) <=> (request.model_name \in DOMAIN ml_manager.models))
    /\ IsCall("get_model_info") => DOMAIN response.content = DOMAIN ml_manager.models

\* a failed load of a name that is loaded under another type, next to a
\* second loaded model
C28_Witness ==
    /\ IsCall("load_model")
    /\ response.content = FALSE
    /\ request.built.raised
    /\ request.model_type = "text_generation"
    /\ DOMAIN ml_manager.models = ModelNames
    /\ ml_manager.models[request.model_name].type = "object_detection"

\* a list of n shapes that differ from any input in every bbox
BlankShapes(n) == [i \in 1..n |-> [bbox |-> <<0, 0, 0, 0>>]]

\* C29: auto_arrange_drawings is idempotent for a fixed canvas: arranging
\* the arranged list again gives an equal list; each output position is the
\* one any other list of the same length gets at that index on that canvas;
\* the input list and the bbox of every input shape are as they were.
C29_ArrangeIdempotent ==
    (IsCall("auto_arrange_drawings") /\ ~response.content.arranged_shapes.raised) =>
        LET out   == response.content.arranged_shapes.value
            blank == auto_arrange_drawings(BlankShapes(Len(request.shapes)),
                                           request.canvas_size)
        IN /\ auto_arrange_drawings(out, request.canvas_size) = Ok(out)
           /\ Len(out) = Len(request.shapes)
           /\ \A i \in 1..Len(out) :
                  /\ out[i].bbox[1] = blank.value[i].bbox[1]
                  /\ out[i].bbox[2] = blank.value[i].bbox[2]
           /\ response.content.shapes = request.shapes
           /\ \A i \in 1..Len(request.shapes) :
                  response.content.shapes[i].bbox = request.shapes[i].bbox

\* three shapes arranged on the default canvas, all of them moved
C29_Witness ==
    /\ IsCall("auto_arrange_drawings")
    /\ ~response.content.arranged_shapes.raised
    /\ Len(request.shapes) = 3
    /\ request.canvas_size = <<800, 600>>
    /\ \A i \in 1..3 :
           response.content.arranged_shapes.value[i].bbox # request.shapes[i].bbox
    /\ request.shapes[1] # request.shapes[2]

\* "A <diagram_type> diagram containing: " and the elements with ", "
\* between neighbours
ExpectedFallback(diagram_type, items) ==
    <<"A ", diagram_type, " diagram containing: ">>
        \o [k \in 1..(IF Len(items) = 0 THEN 0 ELSE 2 * Len(items) - 1) |->
               IF k % 2 = 1 THEN items[(k + 1) \div 2] ELSE ", "]

\* C30: generate_diagram_description never raises for a list of string
\* elements: with the text generator unavailable, or when its call raises,
\* the description is the fallback text "A <diagram_type> diagram
\* containing: <elements joined by ', '>", the same on both paths.
C30_FallbackDescription ==
    (IsCall("/ai/generate-description") /\ request.elements.valid
        /\ request.elements.data.strings) =>
        /\ response.status = 200
        /\ (ai_assistant.text_generator = None \/ request.generated.raised) =>
               response.content.generated_description =
                   ExpectedFallback(request.diagram_type, request.elements.data.items)

\* the generator is there and its call raises, on two elements
C30_Witness ==
    /\ IsCall("/ai/generate-description")
    /\ ai_assistant.text_generator # None
    /\ request.generated.raised
    /\ request.elements.valid
    /\ request.elements.data.items = <<"Start", "End">>
    /\ response.status = 200
    /\ response.content.generated_description =
           <<"A ", request.diagram_type, " diagram containing: ", "Start", ", ", "End">>

=============================================================================
